---- MODULE Spec2Model ----
(***************************************************************************)
(* A model of the pdf-to-epub conversion core: page-range parsing, TOC     *)
(* validation, chapter reconciliation and EPUB chapter assembly.           *)
(*                                                                         *)
(* Text is modelled as a sequence of one-character strings, so that the    *)
(* string operations of the source (trim, split, regular expressions,      *)
(* Number, parseInt, template literals) are computed character by          *)
(* character.                                                              *)
(***************************************************************************)
EXTENDS Integers, Sequences, FiniteSets, TLC

VARIABLES
    \* --- page-range parser (utils.ts) ---
    pages,          \* the string handed to parsePageRange / isValidPageRange
    range,          \* what parsePageRange returned, or {}
    validRange,     \* what isValidPageRange returned, or {}
    \* --- TOC validator (toc.ts validateToc) ---
    tocRaw,         \* the raw TOC text
    validation,     \* what validateToc returned, or {}
    \* --- processPdf from "Calculate page ranges" on (index.ts) ---
    totalPdfPages,  \* the number of files in the ocr directory
    pageOffset,     \* pdfPage - bookPage of the page correction
    userChapters,   \* the chapters of the validated TOC ([] without a TOC)
    finalChapters,  \* what generateFinalChapters returned, or {}
    \* --- generateEpub (epub.ts) ---
    ocrDir,         \* the ocr directory: page index |-> text of page-<index>.txt
    vietnameseDict, \* the vocabulary handed to generateEpub
    epubPc,         \* where generateEpub stands
    chapterIndex,   \* index of the chapter of the for-of loop
    chapterRange,   \* range of that chapter
    pageJ,          \* j, the book page of the inner loop
    chapterContent, \* chapterContent of that chapter
    chapterPages,   \* the book pages whose text chapterContent holds
    playOrder,
    chaptersFolder, \* the chapter files written, in order
    opfManifest,    \* ids of the manifest items, in order
    opfSpine,       \* idrefs of the spine, in order
    tocNcx,         \* nav points, in order
    abnormalWords,  \* the Map word |-> set of page numbers
    \* --- findAbnormalWords called on its own, and the report (index.ts) ---
    englishWords,   \* the English vocabulary handed to findAbnormalWords
    scans,          \* the calls made so far: [text, pageNumber]
    report,         \* the lines written to abnormal-words.txt, or {}
    \* --- applyCorrections (dictionary.ts) ---
    sourceText,     \* the text handed to applyCorrections
    correctionDict, \* the correction dictionary: its entries in key order
    correctedText,  \* what the first application returned, or {}
    correctedAgain, \* what applying the dictionary to that result returned, or {}
    \* --- GET /api/download/:hash/:filename (index.ts) ---
    hash,           \* the hash parameter
    filename,       \* the filename parameter
    accessed,       \* the paths handed to fs.access and fs.readFile
    response,       \* the status of the response, or {}
    \* --- POST /api/convert (index.ts) and the page that calls it ---
    pdfFile,        \* the pdf field of the form
    pageCorrectionRaw, \* the pageCorrection field of the form
    serverPc,       \* where processPdf stands
    stream,         \* the chunks written to the response, in order
    closes,         \* how many times writer.close() was called
    tempDir,        \* the files of the temp directory pdf-to-epub-<hash>
    worker,         \* the OCR worker: "none", "active" or "terminated"
    ocrIndex,       \* i of the loop of performOcr
    recognition,    \* the last call of recognizeWithRetry, or <<>>
    clientPc,       \* where convertPdfToEpub stands
    readCount,      \* how many chunks the page has read
    conversionStatus,
    epubDownloadLink

vars == <<pages, range, validRange, tocRaw, validation,
          totalPdfPages, pageOffset, userChapters, finalChapters,
          ocrDir, vietnameseDict, epubPc, chapterIndex, chapterRange, pageJ,
          chapterContent, chapterPages, playOrder, chaptersFolder,
          opfManifest, opfSpine, tocNcx, abnormalWords,
          englishWords, scans, report,
          sourceText, correctionDict, correctedText, correctedAgain,
          hash, filename, accessed, response,
          pdfFile, pageCorrectionRaw, serverPc, stream, closes, tempDir,
          worker, ocrIndex, recognition,
          clientPc, readCount, conversionStatus, epubDownloadLink>>

rangeVars == <<pages, range, validRange>>
tocVars == <<tocRaw, validation>>
bookVars == <<totalPdfPages, pageOffset, userChapters, finalChapters>>
epubInputs == <<ocrDir, vietnameseDict>>
epubLoop == <<epubPc, chapterIndex, chapterRange, pageJ, chapterContent, chapterPages>>
epubOutputs == <<playOrder, chaptersFolder, opfManifest, opfSpine, tocNcx, abnormalWords>>
epubVars == <<epubInputs, epubLoop, epubOutputs>>
scanVars == <<englishWords, scans, report>>
corrVars == <<sourceText, correctionDict, correctedText, correctedAgain>>
downloadVars == <<hash, filename, accessed, response>>
ocrVars == <<worker, ocrIndex, recognition>>
serverVars == <<pdfFile, pageCorrectionRaw, serverPc, stream, closes, tempDir, ocrVars>>
clientVars == <<clientPc, readCount, conversionStatus, epubDownloadLink>>
convertVars == <<serverVars, clientVars>>
\* What the specifications of the parsers and of EPUB assembly leave alone.
restVars == <<scanVars, corrVars, downloadVars, convertVars>>

(***************************************************************************)
(* Bounds of the model.                                                    *)
(***************************************************************************)
MaxLen == 4         \* longest page-range string enumerated
MaxLines == 3       \* most TOC lines enumerated
MaxUserChapters == 2 \* most user chapters handed to generateFinalChapters
MaxPage == 3        \* largest page number in a user chapter
MaxPdfPages == 3    \* most pages of the PDF
MaxOffset == 2      \* largest page offset, either way
MaxChapters == 3    \* most chapters handed to generateEpub on its own
MaxScans == 3       \* most calls of findAbnormalWords in one run
MaxText == 4        \* longest text enumerated for applyCorrections
MaxEntries == 2     \* most entries of a correction dictionary
MaxCorrection == 3  \* longest page-correction string enumerated

(***************************************************************************)
(* Characters and strings.                                                 *)
(***************************************************************************)
Digits == <<"0", "1", "2", "3", "4", "5", "6", "7", "8", "9">>
DigitSet == {Digits[i] : i \in 1..10}
DigitVal(c) == (CHOOSE i \in 1..10 : Digits[i] = c) - 1

\* The characters String.prototype.trim removes (those a model text can hold).
WhiteSpace == {" ", "\n", "\t", "\r"}

RECURSIVE TrimStart(_)
TrimStart(s) ==
    IF s # <<>> /\ Head(s) \in WhiteSpace THEN TrimStart(Tail(s)) ELSE s

RECURSIVE TrimEnd(_)
TrimEnd(s) ==
    IF s # <<>> /\ s[Len(s)] \in WhiteSpace
    THEN TrimEnd(SubSeq(s, 1, Len(s) - 1))
    ELSE s

\* String.prototype.trim
Trim(s) == TrimEnd(TrimStart(s))

\* String.prototype.split(sep) for a one-character separator: always at
\* least one part, "" splits into <<"">>.
RECURSIVE Split(_, _)
Split(s, sep) ==
    IF \A i \in 1..Len(s) : s[i] # sep
    THEN <<s>>
    ELSE LET k == CHOOSE i \in 1..Len(s) :
                      s[i] = sep /\ \A j \in 1..(i - 1) : s[j] # sep
         IN <<SubSeq(s, 1, k - 1)>> \o Split(SubSeq(s, k + 1, Len(s)), sep)

AllDigits(s) == s # <<>> /\ \A i \in 1..Len(s) : s[i] \in DigitSet

\* The value of a non-empty run of decimal digits ("" is 0).
RECURSIVE DecimalValue(_)
DecimalValue(s) ==
    IF s = <<>> THEN 0
    ELSE 10 * DecimalValue(SubSeq(s, 1, Len(s) - 1)) + DigitVal(s[Len(s)])

\* /^\d+-\d+$/.test(s)
MatchesRangePattern(s) ==
    \E k \in 1..Len(s) :
        /\ s[k] = "-"
        /\ AllDigits(SubSeq(s, 1, k - 1))
        /\ AllDigits(SubSeq(s, k + 1, Len(s)))

(***************************************************************************)
(* JavaScript numbers.  A number is a record: nan, or sign * (int.frac)    *)
(* with frac the fraction digits without trailing zeros.                   *)
(***************************************************************************)
NaN == [nan |-> TRUE, neg |-> FALSE, int |-> 0, frac |-> <<>>]
Num(n) == [nan |-> FALSE, neg |-> n < 0, int |-> IF n < 0 THEN -n ELSE n, frac |-> <<>>]

RECURSIVE StripZeros(_)
StripZeros(f) ==
    IF f # <<>> /\ f[Len(f)] = "0" THEN StripZeros(SubSeq(f, 1, Len(f) - 1)) ELSE f

\* Number(s) on the strings the model builds: digits, white space, "." and
\* characters that begin no numeric literal.  White space is trimmed, the
\* empty string is 0, "1.", ".5" and "1.5" are decimal literals, anything
\* else is NaN.
NumberOf(s) ==
    LET t == Trim(s)
        dots == {i \in 1..Len(t) : t[i] = "."}
    IN  IF t = <<>> THEN Num(0)
        ELSE IF AllDigits(t) THEN Num(DecimalValue(t))
        ELSE IF Cardinality(dots) = 1
        THEN LET k == CHOOSE i \in dots : TRUE
                 ip == SubSeq(t, 1, k - 1)
                 fp == SubSeq(t, k + 1, Len(t))
             IN  IF /\ (ip = <<>> \/ AllDigits(ip))
                    /\ (fp = <<>> \/ AllDigits(fp))
                    /\ (ip # <<>> \/ fp # <<>>)
                 THEN [nan |-> FALSE, neg |-> FALSE,
                       int |-> DecimalValue(ip), frac |-> StripZeros(fp)]
                 ELSE NaN
        ELSE NaN

\* The decimal digits of a natural number, as ${n} prints them.
RECURSIVE NatToString(_)
NatToString(n) ==
    IF n < 10 THEN <<Digits[n + 1]>>
    ELSE NatToString(n \div 10) \o <<Digits[(n % 10) + 1]>>

\* ${n} for an integer n.
IntToString(n) == IF n < 0 THEN <<"-">> \o NatToString(-n) ELSE NatToString(n)

\* ${x} for a number record.
NumberToString(x) ==
    IF x.nan THEN <<"N", "a", "N">>
    ELSE (IF x.neg THEN <<"-">> ELSE <<>>) \o NatToString(x.int)
         \o (IF x.frac = <<>> THEN <<>> ELSE <<".">> \o x.frac)

(***************************************************************************)
(* utils.ts                                                                *)
(***************************************************************************)
\* isValidPageRange(pages)
isValidPageRange(p) == MatchesRangePattern(Trim(p))

NullRange == [ok |-> FALSE, start |-> NaN, end |-> NaN]

\* parsePageRange with the first part read for both ends.
parsePageRange_SameEnds(p) ==
    LET parts == Split(Trim(p), "-")
        nums == [i \in 1..Len(parts) |-> NumberOf(parts[i])]
    IN  IF Len(parts) # 2 \/ \E i \in 1..Len(parts) : nums[i].nan
        THEN NullRange
        ELSE [ok |-> TRUE, start |-> nums[1], end |-> nums[1]]

\* parsePageRange(pages): null unless there are exactly two parts and none
\* of them is NaN.
parsePageRange(p) ==
    LET parts == Split(Trim(p), "-")
        nums == [i \in 1..Len(parts) |-> NumberOf(parts[i])]
    IN  IF Len(parts) # 2 \/ \E i \in 1..Len(parts) : nums[i].nan
        THEN NullRange
        ELSE [ok |-> TRUE, start |-> nums[1], end |-> nums[2]]

\* `${start}-${end}`: the template that writes a page range (toc.ts).
FormatRange(a, b) == NumberToString(a) \o <<"-">> \o NumberToString(b)

(***************************************************************************)
(* toc.ts: validateToc                                                     *)
(***************************************************************************)
Colon == ":"
NewLine == "\n"

\* tocRaw.split('\n').map(trim).filter(length > 0)
TocLines(raw) ==
    LET ls == Split(raw, NewLine)
        trimmed == [i \in 1..Len(ls) |-> Trim(ls[i])]
    IN  SelectSeq(trimmed, LAMBDA l : Len(l) > 0)

Invalid(msg, about) ==
    [valid |-> FALSE, error |-> {[msg |-> msg, about |-> about]}, chapters |-> {}]

\* validateToc returning the chapters read so far along with the error.
RECURSIVE ValidateLines_Partial(_, _)
ValidateLines_Partial(lines, chapters) ==
    IF lines = <<>>
    THEN [valid |-> TRUE, error |-> {}, chapters |-> {chapters}]
    ELSE LET line == Head(lines)
             parts == Split(line, Colon)
         IN  IF Len(parts) # 2
             THEN [valid |-> FALSE,
                   error |-> {[msg |-> "Invalid TOC line", about |-> line]},
                   chapters |-> {chapters}]
             ELSE LET trimmedTitle == Trim(parts[1])
                      trimmedPages == Trim(parts[2])
                  IN  IF trimmedTitle = <<>>
                      THEN [valid |-> FALSE,
                            error |-> {[msg |-> "Empty chapter title in line",
                                        about |-> line]},
                            chapters |-> {chapters}]
                      ELSE IF ~isValidPageRange(trimmedPages)
                      THEN [valid |-> FALSE,
                            error |-> {[msg |-> "Invalid page range",
                                        about |-> trimmedPages]},
                            chapters |-> {chapters}]
                      ELSE ValidateLines_Partial(Tail(lines),
                               Append(chapters,
                                      [title |-> trimmedTitle, pages |-> trimmedPages]))

\* validateToc putting each chapter in front of the list.
RECURSIVE ValidateLines_Unshift(_, _)
ValidateLines_Unshift(lines, chapters) ==
    IF lines = <<>>
    THEN [valid |-> TRUE, error |-> {}, chapters |-> {chapters}]
    ELSE LET line == Head(lines)
             parts == Split(line, Colon)
         IN  IF Len(parts) # 2
             THEN Invalid("Invalid TOC line", line)
             ELSE LET trimmedTitle == Trim(parts[1])
                      trimmedPages == Trim(parts[2])
                  IN  IF trimmedTitle = <<>>
                      THEN Invalid("Empty chapter title in line", line)
                      ELSE IF ~isValidPageRange(trimmedPages)
                      THEN Invalid("Invalid page range", trimmedPages)
                      ELSE ValidateLines_Unshift(Tail(lines),
                               <<[title |-> trimmedTitle, pages |-> trimmedPages]>>
                                   \o chapters)

\* The for loop of validateToc over the remaining lines, `chapters` being the
\* list pushed so far.  A result without a chapters property has
\* chapters = {}, one with the property has chapters = {list}.
RECURSIVE ValidateLines(_, _)
ValidateLines(lines, chapters) ==
    IF lines = <<>>
    THEN [valid |-> TRUE, error |-> {}, chapters |-> {chapters}]
    ELSE LET line == Head(lines)
             parts == Split(line, Colon)
         IN  IF Len(parts) # 2
             THEN Invalid("Invalid TOC line", line)
             ELSE LET trimmedTitle == Trim(parts[1])
                      trimmedPages == Trim(parts[2])
                  IN  IF trimmedTitle = <<>>
                      THEN Invalid("Empty chapter title in line", line)
                      ELSE IF ~isValidPageRange(trimmedPages)
                      THEN Invalid("Invalid page range", trimmedPages)
                      ELSE ValidateLines(Tail(lines),
                               Append(chapters,
                                      [title |-> trimmedTitle, pages |-> trimmedPages]))

validateToc(raw) == ValidateLines(TocLines(raw), <<>>)

(***************************************************************************)
(* toc.ts: generateFinalChapters                                           *)
(***************************************************************************)
\* The integer a number record stands for (its fraction dropped).
IntOf(x) == IF x.neg THEN -x.int ELSE x.int

\* The longest prefix of decimal digits.
RECURSIVE DigitPrefix(_)
DigitPrefix(s) ==
    IF s # <<>> /\ Head(s) \in DigitSet
    THEN <<Head(s)>> \o DigitPrefix(Tail(s))
    ELSE <<>>

\* parseInt(s, 10): leading white space and one sign are skipped, then the
\* longest run of digits is read; NaN when there is none.
ParseInt(s) ==
    LET t == TrimStart(s)
        neg == t # <<>> /\ Head(t) = "-"
        u == IF t # <<>> /\ Head(t) \in {"-", "+"} THEN Tail(t) ELSE t
        d == DigitPrefix(u)
    IN  IF d = <<>> THEN NaN
        ELSE [nan |-> FALSE, neg |-> neg /\ DecimalValue(d) # 0,
              int |-> DecimalValue(d), frac |-> <<>>]

\* parseInt(chapter.pages.split('-')[0], 10)
StartOf(ch) == ParseInt(Split(ch.pages, "-")[1])

\* parseInt(parts[parts.length - 1], 10) of chapter.pages.split('-')
EndOf(ch) ==
    LET parts == Split(ch.pages, "-") IN ParseInt(parts[Len(parts)])

\* The comparator startA - startB; a NaN result counts as 0.
CompareStart(a, b) ==
    IF StartOf(a).nan \/ StartOf(b).nan THEN 0
    ELSE IntOf(StartOf(a)) - IntOf(StartOf(b))

\* a < b and a > b on numbers: false when either is NaN.
NumLess(a, b) == ~a.nan /\ ~b.nan /\ IntOf(a) < IntOf(b)

\* A sort that is not stable: a chapter is placed before the first chapter
\* it is not greater than.
RECURSIVE InsertChapter_BeforeEqual(_, _)
InsertChapter_BeforeEqual(x, sorted) ==
    IF sorted = <<>> THEN <<x>>
    ELSE IF CompareStart(x, Head(sorted)) <= 0 THEN <<x>> \o sorted
    ELSE <<Head(sorted)>> \o InsertChapter_BeforeEqual(x, Tail(sorted))

\* Array.prototype.sort is stable: a chapter is placed before the first
\* chapter it is strictly smaller than.
RECURSIVE InsertChapter(_, _)
InsertChapter(x, sorted) ==
    IF sorted = <<>> THEN <<x>>
    ELSE IF CompareStart(x, Head(sorted)) < 0 THEN <<x>> \o sorted
    ELSE <<Head(sorted)>> \o InsertChapter(x, Tail(sorted))

RECURSIVE SortInto(_, _)
SortInto(sorted, rest) ==
    IF rest = <<>> THEN sorted
    ELSE SortInto(InsertChapter(Head(rest), sorted), Tail(rest))

\* [...userChapters].sort((a, b) => startA - startB)
SortChapters(chs) == SortInto(<<>>, chs)

Introduction == <<"I", "n", "t", "r", "o", "d", "u", "c", "t", "i", "o", "n">>
Appendices == <<"A", "p", "p", "e", "n", "d", "i", "c", "e", "s">>

\* generateFinalChapters with the Introduction added also when the first
\* chapter starts on the first page of the book.
generateFinalChapters_IntroGe(chs, bookStartPage, bookEndPage, defaultTitle) ==
    IF Len(chs) = 0
    THEN << [title |-> defaultTitle,
             pages |-> FormatRange(Num(bookStartPage), Num(bookEndPage))] >>
    ELSE LET sortedChapters == SortChapters(chs)
             first == StartOf(sortedChapters[1])
             last == EndOf(sortedChapters[Len(sortedChapters)])
         IN  (IF ~NumLess(first, Num(bookStartPage))
              THEN << [title |-> Introduction,
                       pages |-> FormatRange(Num(bookStartPage),
                                             Num(IntOf(first) - 1))] >>
              ELSE <<>>)
             \o sortedChapters
             \o (IF NumLess(last, Num(bookEndPage))
                 THEN << [title |-> Appendices,
                          pages |-> FormatRange(Num(IntOf(last) + 1),
                                                Num(bookEndPage))] >>
                 ELSE <<>>)

\* generateFinalChapters with the Appendices starting on the last page of
\* the last chapter.
generateFinalChapters_AppendixFromLast(chs, bookStartPage, bookEndPage, defaultTitle) ==
    IF Len(chs) = 0
    THEN << [title |-> defaultTitle,
             pages |-> FormatRange(Num(bookStartPage), Num(bookEndPage))] >>
    ELSE LET sortedChapters == SortChapters(chs)
             first == StartOf(sortedChapters[1])
             last == EndOf(sortedChapters[Len(sortedChapters)])
         IN  (IF NumLess(Num(bookStartPage), first)
              THEN << [title |-> Introduction,
                       pages |-> FormatRange(Num(bookStartPage),
                                             Num(IntOf(first) - 1))] >>
              ELSE <<>>)
             \o sortedChapters
             \o (IF NumLess(last, Num(bookEndPage))
                 THEN << [title |-> Appendices,
                          pages |-> FormatRange(Num(IntOf(last)),
                                                Num(bookEndPage))] >>
                 ELSE <<>>)

\* generateFinalChapters(userChapters, bookStartPage, bookEndPage, defaultTitle)
generateFinalChapters(chs, bookStartPage, bookEndPage, defaultTitle) ==
    IF Len(chs) = 0
    THEN << [title |-> defaultTitle,
             pages |-> FormatRange(Num(bookStartPage), Num(bookEndPage))] >>
    ELSE LET sortedChapters == SortChapters(chs)
             first == StartOf(sortedChapters[1])
             last == EndOf(sortedChapters[Len(sortedChapters)])
         IN  (IF NumLess(Num(bookStartPage), first)
              THEN << [title |-> Introduction,
                       pages |-> FormatRange(Num(bookStartPage),
                                             Num(IntOf(first) - 1))] >>
              ELSE <<>>)
             \o sortedChapters
             \o (IF NumLess(last, Num(bookEndPage))
                 THEN << [title |-> Appendices,
                          pages |-> FormatRange(Num(IntOf(last) + 1),
                                                Num(bookEndPage))] >>
                 ELSE <<>>)

(***************************************************************************)
(* dictionary.ts: findAbnormalWords                                        *)
(***************************************************************************)
LowerCase == <<"a", "b", "c", "d", "e", "f", "g", "h", "i", "j", "k", "l", "m",
               "n", "o", "p", "q", "r", "s", "t", "u", "v", "w", "x", "y", "z">>
UpperCase == <<"A", "B", "C", "D", "E", "F", "G", "H", "I", "J", "K", "L", "M",
               "N", "O", "P", "Q", "R", "S", "T", "U", "V", "W", "X", "Y", "Z">>

\* The a-zA-Z part of VIETNAMESE_CHARACTERS.
LetterSet == {LowerCase[i] : i \in 1..26} \cup {UpperCase[i] : i \in 1..26}

\* The accented letters of a model text: U+0111, d with stroke, and its
\* capital U+0110, each one character, written here in ASCII.
dStroke == "d-stroke"
DStroke == "D-stroke"

\* VIETNAMESE_CHARACTERS as a character class: a-z, A-Z and the accented
\* letters, which the constant lists in lower case only.
VietnameseCharacters == LetterSet \cup {dStroke}

\* String.prototype.toLowerCase, character by character.
LowerChar(c) ==
    IF \E i \in 1..26 : UpperCase[i] = c
    THEN LowerCase[CHOOSE i \in 1..26 : UpperCase[i] = c]
    ELSE IF c = DStroke THEN dStroke
    ELSE c

ToLowerCase(s) == [i \in 1..Len(s) |-> LowerChar(s[i])]

\* text.match(/[letters]+/g) || []: the maximal runs of letters, in order.
RECURSIVE MatchWords(_, _)
MatchWords(s, word) ==
    IF s = <<>> THEN (IF word = <<>> THEN <<>> ELSE <<word>>)
    ELSE IF Head(s) \in VietnameseCharacters
    THEN MatchWords(Tail(s), Append(word, Head(s)))
    ELSE (IF word = <<>> THEN <<>> ELSE <<word>>) \o MatchWords(Tail(s), <<>>)

\* JavaScript values handed to a function: a Set, a Map, a number, or
\* undefined for a parameter the call gives no argument for.
JsSet(S) == [type |-> "Set", val |-> S]
JsMap(m) == [type |-> "Map", val |-> m]
JsNumber(n) == [type |-> "number", val |-> n]
JsUndefined == [type |-> "undefined", val |-> 0]

\* loadIgnoreWords(): the ignore-words file of the model is empty.
loadIgnoreWords == {}

\* The page set of a word started anew on every page.
AddPage_Replace(m, word, pageNumber) ==
    [w \in DOMAIN m \cup {word} |-> IF w = word THEN {pageNumber} ELSE m[w]]

\* abnormalWords.set(word, new Set()) when absent, then .add(pageNumber)
AddPage(m, word, pageNumber) ==
    [w \in DOMAIN m \cup {word} |->
        IF w = word
        THEN (IF word \in DOMAIN m THEN m[word] ELSE {}) \cup {pageNumber}
        ELSE m[w]]

\* The for loop of findAbnormalWords.  englishDict.has and
\* abnormalWords.has throw a TypeError when the value is no Set and no Map;
\* the Map is changed in place, so what it holds when the error is thrown
\* stays.  The result is [threw, map]: whether an error was thrown, and the
\* content of the Map passed as abnormalWords.
RECURSIVE ScanWords(_, _, _, _, _, _)
ScanWords(words, predefinedDict, ignoreWords, englishDict, pageNumber, abnormal) ==
    IF words = <<>> THEN [threw |-> FALSE, map |-> abnormal.val]
    ELSE LET word == Head(words)
             rest == Tail(words)
         IN  IF ~(Len(word) > 1 /\ word \notin predefinedDict.val
                  /\ word \notin ignoreWords)
             THEN ScanWords(rest, predefinedDict, ignoreWords, englishDict,
                            pageNumber, abnormal)
             ELSE IF englishDict.type # "Set"
             THEN [threw |-> TRUE, map |-> abnormal.val]
             ELSE IF word \in englishDict.val
             THEN ScanWords(rest, predefinedDict, ignoreWords, englishDict,
                            pageNumber, abnormal)
             ELSE IF abnormal.type # "Map"
             THEN [threw |-> TRUE, map |-> abnormal.val]
             ELSE ScanWords(rest, predefinedDict, ignoreWords, englishDict,
                            pageNumber,
                            JsMap(AddPage(abnormal.val, word, pageNumber.val)))

\* findAbnormalWords(text, predefinedDict, englishDict, pageNumber, abnormalWords)
findAbnormalWords(text, predefinedDict, englishDict, pageNumber, abnormal) ==
    IF Cardinality(predefinedDict.val) = 0
    THEN [threw |-> FALSE, map |-> abnormal.val]
    ELSE ScanWords(MatchWords(ToLowerCase(text), <<>>), predefinedDict,
                   loadIgnoreWords, englishDict, pageNumber, abnormal)

(***************************************************************************)
(* dictionary.ts: applyCorrections.  The dictionary is the sequence of its *)
(* entries in the order `for (const wrong in dictionary)` visits them.     *)
(* The report Map the function also returns is left out.                   *)
(***************************************************************************)
UpperSet == {UpperCase[i] : i \in 1..26} \cup {DStroke}

\* String.prototype.toUpperCase on one character.
UpperChar(c) ==
    IF \E i \in 1..26 : LowerCase[i] = c
    THEN UpperCase[CHOOSE i \in 1..26 : LowerCase[i] = c]
    ELSE IF c = dStroke THEN DStroke
    ELSE c

\* capitalizeFirst returning its argument.
capitalizeFirst_Verbatim(str) == str

\* capitalizeFirst(str)
capitalizeFirst(str) ==
    IF str = <<>> THEN str ELSE <<UpperChar(Head(str))>> \o Tail(str)

\* new RegExp(`[^${VIETNAMESE_CHARACTERS}]`).test(wrong)
isComplexPattern(wrong) ==
    \E i \in 1..Len(wrong) : wrong[i] \notin VietnameseCharacters

\* \w of a regular expression: ASCII letters, digits and the underscore.
WordChars == LetterSet \cup DigitSet \cup {"_"}

\* \b holding everywhere.
WordBoundary_Everywhere(t, pos) == TRUE

\* \b between the characters pos and pos + 1 of t.
WordBoundary(t, pos) ==
    (pos >= 1 /\ t[pos] \in WordChars) # (pos < Len(t) /\ t[pos + 1] \in WordChars)

\* The regular expression built from `wrong`, flags gi, matches at i: the
\* escaped key matches itself, letter case aside, and a key of letters only
\* is wrapped in \b.
RegexMatchesAt(t, i, wrong) ==
    LET last == i + Len(wrong) - 1
    IN  /\ last <= Len(t)
        /\ ToLowerCase(SubSeq(t, i, last)) = ToLowerCase(wrong)
        /\ isComplexPattern(wrong)
               \/ (WordBoundary(t, i - 1) /\ WordBoundary(t, last))

\* correctedText.replace(regex, (match) => ...) from position i on: matches
\* are taken left to right and do not overlap.
RECURSIVE ReplaceFrom(_, _, _, _)
ReplaceFrom(t, i, wrong, correct) ==
    IF i > Len(t) THEN <<>>
    ELSE IF RegexMatchesAt(t, i, wrong)
    THEN (IF t[i] \in UpperSet THEN capitalizeFirst(correct) ELSE correct)
         \o ReplaceFrom(t, i + Len(wrong), wrong, correct)
    ELSE <<t[i]>> \o ReplaceFrom(t, i + 1, wrong, correct)

\* applyCorrections(text, dictionary).correctedText
RECURSIVE applyCorrections(_, _)
applyCorrections(t, entries) ==
    IF entries = <<>> THEN t
    ELSE applyCorrections(ReplaceFrom(t, 1, Head(entries).wrong, Head(entries).correct),
                          Tail(entries))

(***************************************************************************)
(* epub.ts: formatTextAsHtml and generateEpub.  Markup is written as one   *)
(* element of the text per tag or entity.                                  *)
(***************************************************************************)
\* sanitizeXml, character by character.
SanitizeChar(c) ==
    CASE c = "&" -> "&amp;"
      [] c = "<" -> "&lt;"
      [] c = ">" -> "&gt;"
      [] c = "\"" -> "&quot;"
      [] c = "'" -> "&apos;"
      [] OTHER -> c

sanitizeXml(text) == [i \in 1..Len(text) |-> SanitizeChar(text[i])]

\* Array.prototype.join
RECURSIVE Join(_, _)
Join(parts, sep) ==
    IF parts = <<>> THEN <<>>
    ELSE IF Len(parts) = 1 THEN parts[1]
    ELSE parts[1] \o sep \o Join(Tail(parts), sep)

Paragraph(lines) == <<"<p>">> \o Join(lines, <<" ">>) \o <<"</p>">>

\* The for loop of formatTextAsHtml and the flush after it.
RECURSIVE FormatLines(_, _, _)
FormatLines(lines, paragraphs, currentParagraph) ==
    IF lines = <<>>
    THEN IF Len(currentParagraph) > 0
         THEN Append(paragraphs, Paragraph(currentParagraph))
         ELSE paragraphs
    ELSE LET trimmedLine == Trim(Head(lines))
         IN  IF trimmedLine = <<>>
             THEN IF Len(currentParagraph) > 0
                  THEN FormatLines(Tail(lines),
                                   Append(paragraphs, Paragraph(currentParagraph)),
                                   <<>>)
                  ELSE FormatLines(Tail(lines), paragraphs, currentParagraph)
             ELSE FormatLines(Tail(lines), paragraphs,
                              Append(currentParagraph, sanitizeXml(trimmedLine)))

\* formatTextAsHtml(text)
formatTextAsHtml(text) ==
    Join(FormatLines(Split(text, NewLine), <<>>, <<>>), <<NewLine>>)

(***************************************************************************)
(* Inputs of the page-range parser: every string of at most MaxLen         *)
(* characters over digits, dash, blank, dot and a letter.                  *)
(***************************************************************************)
RangeChars == {"0", "1", "2", "-", " ", ".", "a"}
RangeStrings == UNION {[1..k -> RangeChars] : k \in 0..MaxLen}

(***************************************************************************)
(* Inputs of the TOC validator: texts of at most MaxLines lines.  The      *)
(* lines hold the README's two example lines, well-formed lines with and   *)
(* without padding, blank lines, and lines with each defect.               *)
(***************************************************************************)
ReadmeTitle1 == <<"C", "h", "a", "p", "t", "e", "r", " ", "1", ":", " ", "T", "h", "e", " ", "B", "e", "g", "i", "n", "n", "i", "n", "g">>
ReadmePages1 == <<"1", "4", "-", "2", "5">>
ReadmeTitle2 == <<"C", "h", "a", "p", "t", "e", "r", " ", "2", ":", " ", "T", "h", "e", " ", "M", "i", "d", "d", "l", "e">>
ReadmePages2 == <<"2", "6", "-", "5", "0">>

\* A line in the documented format, `Chapter Title: start_page-end_page`.
DocumentedLine(title, pgs) == title \o <<":", " ">> \o pgs

LineSet ==
    { <<"a", ":", "1", "-", "2">>,
      DocumentedLine(<<"b">>, <<"2", "-", "3">>),
      <<" ", "c", " ", ":", "0", "-", "1", " ">>,
      <<"a", ":", "b", ":", "1", "-", "2">>,
      DocumentedLine(ReadmeTitle1, ReadmePages1),
      DocumentedLine(ReadmeTitle2, ReadmePages2),
      <<"a", " ", "1", "-", "2">>,
      <<" ", ":", "1", "-", "2">>,
      <<"a", ":", "1", "-">>,
      <<"a", ":", "1">>,
      <<":">>,
      <<>>,
      <<" ">> }

RECURSIVE JoinLines(_)
JoinLines(ls) ==
    IF Len(ls) = 0 THEN <<>>
    ELSE IF Len(ls) = 1 THEN ls[1]
    ELSE ls[1] \o <<NewLine>> \o JoinLines(Tail(ls))

\* processPdf calls validateToc only on a text that is not blank
\* (index.ts line 71).
TocTexts ==
    { t \in { JoinLines(ls) : ls \in UNION {[1..k -> LineSet] : k \in 1..MaxLines} } :
        Trim(t) # <<>> }

(***************************************************************************)
(* Specification of the page-range parser: one string, parsed and          *)
(* validated.  A result is {} until the function has been called.          *)
(***************************************************************************)
RangeIdle == pages = <<>> /\ range = {} /\ validRange = {}
TocIdle == tocRaw = <<>> /\ validation = {}
BookIdle ==
    /\ totalPdfPages = 0
    /\ pageOffset = 0
    /\ userChapters = <<>>
    /\ finalChapters = {}

EpubLocalsIdle ==
    /\ epubPc = "idle"
    /\ chapterIndex = 0
    /\ chapterRange = NullRange
    /\ pageJ = 0
    /\ chapterContent = <<>>
    /\ chapterPages = {}
    /\ playOrder = 0
    /\ chaptersFolder = <<>>
    /\ opfManifest = <<>>
    /\ opfSpine = <<>>
    /\ tocNcx = <<>>
    /\ abnormalWords = <<>>

EpubIdle ==
    /\ ocrDir = <<>>
    /\ vietnameseDict = {}
    /\ EpubLocalsIdle

ScanIdle == englishWords = {} /\ scans = <<>> /\ report = {}

CorrIdle ==
    /\ sourceText = <<>>
    /\ correctionDict = <<>>
    /\ correctedText = {}
    /\ correctedAgain = {}

DownloadIdle == hash = <<>> /\ filename = <<>> /\ accessed = {} /\ response = {}

ServerIdle ==
    /\ pdfFile = "none"
    /\ pageCorrectionRaw = <<>>
    /\ serverPc = "idle"
    /\ stream = <<>>
    /\ closes = 0
    /\ tempDir = {}
    /\ worker = "none"
    /\ ocrIndex = 0
    /\ recognition = <<>>

ClientIdle ==
    /\ clientPc = "idle"
    /\ readCount = 0
    /\ conversionStatus = <<>>
    /\ epubDownloadLink = <<>>

ConvertIdle == ServerIdle /\ ClientIdle

RestIdle == ScanIdle /\ CorrIdle /\ DownloadIdle /\ ConvertIdle

InitRange ==
    /\ pages \in RangeStrings
    /\ range = {}
    /\ validRange = {}
    /\ TocIdle
    /\ BookIdle
    /\ EpubIdle
    /\ RestIdle

ParsePageRange ==
    /\ range = {}
    /\ range' = {parsePageRange(pages)}
    /\ UNCHANGED <<pages, validRange, tocVars, bookVars, epubVars>>
    /\ UNCHANGED restVars

IsValidPageRange ==
    /\ validRange = {}
    /\ validRange' = {isValidPageRange(pages)}
    /\ UNCHANGED <<pages, range, tocVars, bookVars, epubVars>>
    /\ UNCHANGED restVars

NextRange == ParsePageRange \/ IsValidPageRange

SpecRange == InitRange /\ [][NextRange]_vars

(***************************************************************************)
(* Specification of the TOC validator.                                     *)
(***************************************************************************)
InitToc ==
    /\ tocRaw \in TocTexts
    /\ validation = {}
    /\ RangeIdle
    /\ BookIdle
    /\ EpubIdle
    /\ RestIdle

ValidateToc ==
    /\ validation = {}
    /\ validation' = {validateToc(tocRaw)}
    /\ UNCHANGED <<tocRaw, rangeVars, bookVars, epubVars>>
    /\ UNCHANGED restVars

NextToc == ValidateToc

SpecToc == InitToc /\ [][NextToc]_vars

(***************************************************************************)
(* Specification of chapter reconciliation: processPdf from "Calculate     *)
(* page ranges" to generateFinalChapters, for a PDF of totalPdfPages       *)
(* pages, a page offset and the chapters of a validated TOC.               *)
(***************************************************************************)
\* The page ranges a validated TOC can hold: `start-end` in digits.
UserRanges ==
    { FormatRange(Num(a), Num(b)) : a \in 0..MaxPage, b \in 0..MaxPage }

\* The title of the i-th TOC line.
UserTitle(i) == <<"c", Digits[i + 1]>>

UserChapterLists ==
    UNION { { [i \in 1..k |-> [title |-> UserTitle(i), pages |-> r[i]]] :
                r \in [1..k -> UserRanges] } : k \in 0..MaxUserChapters }

\* pdfFile.name.replace('.pdf', '')
bookTitle == <<"b", "o", "o", "k">>

\* const bookStartPage = 1 - pageOffset
bookStartPage == 1 - pageOffset

\* const bookEndPage = totalPdfPages - pageOffset
bookEndPage == totalPdfPages - pageOffset

InitChapters ==
    /\ totalPdfPages \in 1..MaxPdfPages
    /\ pageOffset \in (-MaxOffset)..MaxOffset
    /\ userChapters \in UserChapterLists
    /\ finalChapters = {}
    /\ RangeIdle
    /\ TocIdle
    /\ EpubIdle
    /\ RestIdle

GenerateFinalChapters ==
    /\ finalChapters = {}
    /\ finalChapters' =
           {generateFinalChapters(userChapters, bookStartPage, bookEndPage, bookTitle)}
    /\ UNCHANGED <<totalPdfPages, pageOffset, userChapters, rangeVars, tocVars, epubVars>>
    /\ UNCHANGED restVars

NextChapters == GenerateFinalChapters

SpecChapters == InitChapters /\ [][NextChapters]_vars

(***************************************************************************)
(* Specification of EPUB assembly: processPdf from "Calculate page ranges" *)
(* through generateFinalChapters and generateEpub, for a TOC whose         *)
(* chapters lie inside the book span, one recognized text per page of the  *)
(* PDF and a vocabulary that is loaded or absent.                          *)
(***************************************************************************)
\* Recognized page texts: a blank page, a page of known words, a page with
\* a word the vocabulary does not have.
PageTexts ==
    { <<" ", "\n">>,
      <<"a", "b">>,
      <<"A", "b", " ", "x", "y">> }

\* The vocabulary: absent (the file is missing), or loaded.
Vocabularies == { {}, {<<"a", "b">>} }

\* Every chapter runs forward and lies inside [bookStartPage, bookEndPage].
InsideSpan(chs, first, last) ==
    \A i \in 1..Len(chs) :
        /\ first <= IntOf(StartOf(chs[i]))
        /\ IntOf(StartOf(chs[i])) <= IntOf(EndOf(chs[i]))
        /\ IntOf(EndOf(chs[i])) <= last

InitEpub ==
    /\ totalPdfPages \in 1..MaxPdfPages
    /\ pageOffset \in (-MaxOffset)..MaxOffset
    /\ userChapters \in UserChapterLists
    /\ InsideSpan(userChapters, bookStartPage, bookEndPage)
    /\ finalChapters = {}
    /\ ocrDir \in [1..totalPdfPages -> PageTexts]
    /\ vietnameseDict \in Vocabularies
    /\ EpubLocalsIdle
    /\ RangeIdle
    /\ TocIdle
    /\ RestIdle

\* The chapters handed to generateEpub.
Chapters == CHOOSE f \in finalChapters : TRUE

\* generateEpub up to the chapter loop (epub.ts lines 50-82).
StartEpub ==
    /\ epubPc = "idle"
    /\ finalChapters # {}
    /\ epubPc' = "chapter"
    /\ chapterIndex' = 1
    /\ abnormalWords' = <<>>
    /\ opfManifest' = <<"css">>
    /\ opfSpine' = <<>>
    /\ tocNcx' = <<>>
    /\ playOrder' = 1
    /\ chaptersFolder' = <<>>
    /\ UNCHANGED <<chapterRange, pageJ, chapterContent, chapterPages,
                   epubInputs, bookVars, rangeVars, tocVars>>
    /\ UNCHANGED restVars

\* The head of one iteration of the chapter loop (lines 85-90): a chapter
\* whose pages do not parse is skipped.
BeginChapter ==
    /\ epubPc = "chapter"
    /\ chapterIndex <= Len(Chapters)
    /\ LET r == parsePageRange(Chapters[chapterIndex].pages)
       IN  IF ~r.ok
           THEN /\ chapterIndex' = chapterIndex + 1
                /\ UNCHANGED <<epubPc, chapterRange, pageJ, chapterContent,
                               chapterPages>>
           ELSE /\ epubPc' = "page"
                /\ chapterRange' = r
                /\ chapterContent' = <<>>
                /\ chapterPages' = {}
                /\ pageJ' = IntOf(r.start)
                /\ UNCHANGED chapterIndex
    /\ UNCHANGED <<epubOutputs, epubInputs, bookVars, rangeVars, tocVars>>
    /\ UNCHANGED restVars

\* One iteration of the page loop (lines 90-104).  The call gives
\* findAbnormalWords four arguments for its five parameters: englishDict
\* receives j, pageNumber receives the Map, abnormalWords receives nothing.
\* An error thrown by readFile or by findAbnormalWords is caught and the
\* page is passed over.
ProcessPage ==
    /\ epubPc = "page"
    /\ pageJ <= IntOf(chapterRange.end)
    /\ LET imageIndex == pageJ + pageOffset
       IN  IF imageIndex < 1 \/ imageIndex > totalPdfPages
           THEN UNCHANGED <<chapterContent, chapterPages>>
           ELSE IF imageIndex \notin DOMAIN ocrDir
           THEN UNCHANGED <<chapterContent, chapterPages>>
           ELSE LET text == ocrDir[imageIndex]
                    scan == findAbnormalWords(text, JsSet(vietnameseDict),
                                JsNumber(pageJ), JsMap(abnormalWords), JsUndefined)
                IN  IF scan.threw
                    THEN UNCHANGED <<chapterContent, chapterPages>>
                    ELSE /\ chapterContent' = chapterContent \o formatTextAsHtml(text)
                         /\ chapterPages' = chapterPages \cup {pageJ}
    /\ pageJ' = pageJ + 1
    /\ UNCHANGED <<epubPc, chapterIndex, chapterRange, epubOutputs, epubInputs,
                   bookVars, rangeVars, tocVars>>
    /\ UNCHANGED restVars

\* The tail of the chapter loop writing a chapter also when it has no
\* content.
EndChapter_EmitEmpty ==
    /\ epubPc = "page"
    /\ pageJ > IntOf(chapterRange.end)
    /\ chaptersFolder' =
           Append(chaptersFolder,
                  [name |-> playOrder,
                   title |-> sanitizeXml(Chapters[chapterIndex].title),
                   content |-> chapterContent,
                   pages |-> chapterPages])
    /\ opfManifest' = Append(opfManifest, playOrder)
    /\ opfSpine' = Append(opfSpine, playOrder)
    /\ tocNcx' = Append(tocNcx,
                        [playOrder |-> playOrder,
                         label |-> sanitizeXml(Chapters[chapterIndex].title),
                         src |-> playOrder])
    /\ playOrder' = playOrder + 1
    /\ UNCHANGED abnormalWords
    /\ epubPc' = "chapter"
    /\ chapterIndex' = chapterIndex + 1
    /\ UNCHANGED <<chapterRange, pageJ, chapterContent, chapterPages,
                   epubInputs, bookVars, rangeVars, tocVars>>
    /\ UNCHANGED restVars

\* The tail of the chapter loop counting a dropped chapter in playOrder.
EndChapter_CountDropped ==
    /\ epubPc = "page"
    /\ pageJ > IntOf(chapterRange.end)
    /\ IF Trim(chapterContent) = <<>>
       THEN /\ playOrder' = playOrder + 1
            /\ UNCHANGED <<chaptersFolder, opfManifest, opfSpine, tocNcx, abnormalWords>>
       ELSE /\ chaptersFolder' =
                   Append(chaptersFolder,
                          [name |-> playOrder,
                           title |-> sanitizeXml(Chapters[chapterIndex].title),
                           content |-> chapterContent,
                           pages |-> chapterPages])
            /\ opfManifest' = Append(opfManifest, playOrder)
            /\ opfSpine' = Append(opfSpine, playOrder)
            /\ tocNcx' = Append(tocNcx,
                                [playOrder |-> playOrder,
                                 label |-> sanitizeXml(Chapters[chapterIndex].title),
                                 src |-> playOrder])
            /\ playOrder' = playOrder + 1
            /\ UNCHANGED abnormalWords
    /\ epubPc' = "chapter"
    /\ chapterIndex' = chapterIndex + 1
    /\ UNCHANGED <<chapterRange, pageJ, chapterContent, chapterPages,
                   epubInputs, bookVars, rangeVars, tocVars>>
    /\ UNCHANGED restVars

\* The tail of one iteration of the chapter loop (lines 106-131): a chapter
\* without content is dropped, any other is written as chapter-<playOrder>.
EndChapter ==
    /\ epubPc = "page"
    /\ pageJ > IntOf(chapterRange.end)
    /\ IF Trim(chapterContent) = <<>>
       THEN UNCHANGED epubOutputs
       ELSE /\ chaptersFolder' =
                   Append(chaptersFolder,
                          [name |-> playOrder,
                           title |-> sanitizeXml(Chapters[chapterIndex].title),
                           content |-> chapterContent,
                           pages |-> chapterPages])
            /\ opfManifest' = Append(opfManifest, playOrder)
            /\ opfSpine' = Append(opfSpine, playOrder)
            /\ tocNcx' = Append(tocNcx,
                                [playOrder |-> playOrder,
                                 label |-> sanitizeXml(Chapters[chapterIndex].title),
                                 src |-> playOrder])
            /\ playOrder' = playOrder + 1
            /\ UNCHANGED abnormalWords
    /\ epubPc' = "chapter"
    /\ chapterIndex' = chapterIndex + 1
    /\ UNCHANGED <<chapterRange, pageJ, chapterContent, chapterPages,
                   epubInputs, bookVars, rangeVars, tocVars>>
    /\ UNCHANGED restVars

\* After the chapter loop (lines 134-177): content.opf, toc.ncx, the zip.
FinishEpub ==
    /\ epubPc = "chapter"
    /\ chapterIndex > Len(Chapters)
    /\ epubPc' = "done"
    /\ UNCHANGED <<chapterIndex, chapterRange, pageJ, chapterContent, chapterPages,
                   epubOutputs, epubInputs, bookVars, rangeVars, tocVars>>
    /\ UNCHANGED restVars

NextEpub ==
    \/ GenerateFinalChapters
    \/ StartEpub
    \/ BeginChapter
    \/ ProcessPage
    \/ EndChapter
    \/ FinishEpub

SpecEpub == InitEpub /\ [][NextEpub]_vars

(***************************************************************************)
(* Specification of generateEpub on its own: any list of chapters, an ocr  *)
(* directory in which pages can be missing, a page offset and a            *)
(* vocabulary.                                                             *)
(***************************************************************************)
\* The page ranges of the chapters: pages of the PDF, a page beyond a short
\* PDF, and a range parsePageRange does not read.
AssemblyRanges ==
    { <<"1", "-", "1">>, <<"2", "-", "2">>, <<"1", "-", "2">>,
      <<"-", "1", "-", "-", "1">> }

AssemblyChapterLists ==
    UNION { { [i \in 1..k |-> [title |-> UserTitle(i), pages |-> r[i]]] :
                r \in [1..k -> AssemblyRanges] } : k \in 0..MaxChapters }

InitAssembly ==
    /\ totalPdfPages \in {1, 2}
    /\ pageOffset \in {0, 1}
    /\ userChapters = <<>>
    /\ finalChapters \in { {chs} : chs \in AssemblyChapterLists }
    /\ ocrDir \in UNION { [D -> PageTexts] : D \in SUBSET (1..totalPdfPages) }
    /\ vietnameseDict \in Vocabularies
    /\ EpubLocalsIdle
    /\ RangeIdle
    /\ TocIdle
    /\ RestIdle

NextAssembly ==
    \/ StartEpub
    \/ BeginChapter
    \/ ProcessPage
    \/ EndChapter
    \/ FinishEpub

SpecAssembly == InitAssembly /\ [][NextAssembly]_vars

(***************************************************************************)
(* Specification of the abnormal-word index: findAbnormalWords called with *)
(* its five parameters on one Map, page after page, and then the report    *)
(* processPdf writes from that Map (index.ts lines 158-173).               *)
(***************************************************************************)
Hello == <<"h", "e", "l", "l", "o">>
Wrold == <<"w", "r", "o", "l", "d">>

ScanTexts ==
    { Hello \o <<" ">> \o Wrold,
      <<"a", "b", " ", "W", "r", "o", "l", "d">>,
      <<"o", "k", " ", "a">> }

ScanPages == {5, 6, 10}

\* An array of the elements of a Set, or of the keys of a Map.  The order
\* is left open: both arrays are sorted with a comparator that is never 0
\* on two of their elements.
RECURSIVE ArrayFrom(_)
ArrayFrom(S) ==
    IF S = {} THEN <<>>
    ELSE LET x == CHOOSE y \in S : TRUE IN <<x>> \o ArrayFrom(S \ {x})

\* wordA.localeCompare(wordB) on words of unaccented lower-case letters:
\* alphabetical, a proper prefix first.
RECURSIVE localeCompare(_, _)
localeCompare(wordA, wordB) ==
    IF wordA = <<>> THEN (IF wordB = <<>> THEN 0 ELSE -1)
    ELSE IF wordB = <<>> THEN 1
    ELSE IF Head(wordA) = Head(wordB) THEN localeCompare(Tail(wordA), Tail(wordB))
    ELSE IF (CHOOSE i \in 1..26 : LowerCase[i] = Head(wordA))
              < (CHOOSE i \in 1..26 : LowerCase[i] = Head(wordB))
         THEN -1 ELSE 1

RECURSIVE InsertWord(_, _)
InsertWord(w, sorted) ==
    IF sorted = <<>> THEN <<w>>
    ELSE IF localeCompare(w, Head(sorted)) < 0 THEN <<w>> \o sorted
    ELSE <<Head(sorted)>> \o InsertWord(w, Tail(sorted))

\* .sort(([wordA], [wordB]) => wordA.localeCompare(wordB))
RECURSIVE SortWords(_)
SortWords(ws) ==
    IF ws = <<>> THEN <<>>
    ELSE InsertWord(ws[Len(ws)], SortWords(SubSeq(ws, 1, Len(ws) - 1)))

\* The pages sorted without a comparator, that is, as strings.
RECURSIVE DigitsBefore(_, _)
DigitsBefore(a, b) ==
    IF a = <<>> THEN b # <<>>
    ELSE IF b = <<>> THEN FALSE
    ELSE IF Head(a) = Head(b) THEN DigitsBefore(Tail(a), Tail(b))
    ELSE DigitVal(Head(a)) < DigitVal(Head(b))

RECURSIVE InsertPage_AsText(_, _)
InsertPage_AsText(a, sorted) ==
    IF sorted = <<>> THEN <<a>>
    ELSE IF DigitsBefore(IntToString(a), IntToString(Head(sorted)))
         THEN <<a>> \o sorted
    ELSE <<Head(sorted)>> \o InsertPage_AsText(a, Tail(sorted))

RECURSIVE SortPages_AsText(_)
SortPages_AsText(ps) ==
    IF ps = <<>> THEN <<>>
    ELSE InsertPage_AsText(ps[Len(ps)], SortPages_AsText(SubSeq(ps, 1, Len(ps) - 1)))

RECURSIVE InsertPage(_, _)
InsertPage(a, sorted) ==
    IF sorted = <<>> THEN <<a>>
    ELSE IF a - Head(sorted) < 0 THEN <<a>> \o sorted
    ELSE <<Head(sorted)>> \o InsertPage(a, Tail(sorted))

\* .sort((a, b) => a - b)
RECURSIVE SortPages(_)
SortPages(ps) ==
    IF ps = <<>> THEN <<>>
    ELSE InsertPage(ps[Len(ps)], SortPages(SubSeq(ps, 1, Len(ps) - 1)))

\* `${word}: ${Array.from(pages).sort((a, b) => a - b).join(', ')}`
ReportLine(word, pageSet) ==
    LET sorted == SortPages(ArrayFrom(pageSet))
    IN  word \o <<":", " ">>
        \o Join([k \in 1..Len(sorted) |-> IntToString(sorted[k])], <<",", " ">>)

\* formattedAbnormalWords.join('\n')
FormatReport(index) ==
    LET words == SortWords(ArrayFrom(DOMAIN index))
    IN  Join([k \in 1..Len(words) |-> ReportLine(words[k], index[words[k]])],
             <<NewLine>>)

InitScan ==
    /\ vietnameseDict \in { {}, {Hello} }
    /\ englishWords \in { {}, {<<"o", "k">>} }
    /\ scans = <<>>
    /\ report = {}
    /\ abnormalWords = <<>>
    /\ ocrDir = <<>>
    /\ epubPc = "idle"
    /\ chapterIndex = 0
    /\ chapterRange = NullRange
    /\ pageJ = 0
    /\ chapterContent = <<>>
    /\ chapterPages = {}
    /\ playOrder = 0
    /\ chaptersFolder = <<>>
    /\ opfManifest = <<>>
    /\ opfSpine = <<>>
    /\ tocNcx = <<>>
    /\ RangeIdle
    /\ TocIdle
    /\ BookIdle
    /\ CorrIdle
    /\ DownloadIdle
    /\ ConvertIdle

\* One call findAbnormalWords(text, predefinedDict, englishDict, pageNumber,
\* abnormalWords) on the Map of the run.
Scan ==
    /\ report = {}
    /\ Len(scans) < MaxScans
    /\ \E t \in ScanTexts, pageNumber \in ScanPages :
           /\ abnormalWords' =
                  findAbnormalWords(t, JsSet(vietnameseDict), JsSet(englishWords),
                                    JsNumber(pageNumber), JsMap(abnormalWords)).map
           /\ scans' = Append(scans, [text |-> t, pageNumber |-> pageNumber])
    /\ UNCHANGED <<vietnameseDict, englishWords, report, ocrDir, epubLoop,
                   playOrder, chaptersFolder, opfManifest, opfSpine, tocNcx,
                   rangeVars, tocVars, bookVars, corrVars, downloadVars, convertVars>>

\* "Save abnormal words" (index.ts lines 158-173): the file is written only
\* when the Map is not empty.
SaveAbnormalWords ==
    /\ report = {}
    /\ report' = { IF Cardinality(DOMAIN abnormalWords) > 0
                   THEN [written |-> TRUE, content |-> FormatReport(abnormalWords)]
                   ELSE [written |-> FALSE, content |-> <<>>] }
    /\ UNCHANGED <<vietnameseDict, englishWords, scans, abnormalWords, ocrDir,
                   epubLoop, playOrder, chaptersFolder, opfManifest, opfSpine, tocNcx,
                   rangeVars, tocVars, bookVars, corrVars, downloadVars, convertVars>>

NextScan == Scan \/ SaveAbnormalWords

SpecScan == InitScan /\ [][NextScan]_vars

(***************************************************************************)
(* Specification of applyCorrections: a text and a dictionary, the         *)
(* dictionary applied once and then applied to the result.                 *)
(***************************************************************************)
Foo == <<"f", "o", "o">>
Bar == <<"b", "a", "r">>

\* Every text of at most MaxText characters, and the two texts of the
\* documented example.
CorrectionTexts ==
    UNION { [1..k -> {"a", "A", "b", " "}] : k \in 0..MaxText }
    \cup { <<"F", "o", "o", " ", "t", "e", "x", "t">>,
           <<"f", "o", "o", " ", "t", "e", "x", "t">> }

\* Keys: two words and a pattern with a character that is no letter.
\* Replacements: nothing, a word, two words.
CorrectionEntries ==
    { [wrong |-> k, correct |-> v] :
        k \in { <<"a">>, <<"b">>, <<" ", "a">> },
        v \in { <<>>, <<"a", "b">>, <<"a", " ", "b">> } }

\* A JSON object has one value per key.
CorrectionDicts ==
    { d \in UNION { [1..k -> CorrectionEntries] : k \in 0..MaxEntries } :
        \A i, j \in 1..Len(d) : i # j => d[i].wrong # d[j].wrong }
    \cup { << [wrong |-> Foo, correct |-> Bar] >> }

InitCorrect ==
    /\ sourceText \in CorrectionTexts
    /\ correctionDict \in CorrectionDicts
    /\ correctedText = {}
    /\ correctedAgain = {}
    /\ RangeIdle
    /\ TocIdle
    /\ BookIdle
    /\ EpubIdle
    /\ ScanIdle
    /\ DownloadIdle
    /\ ConvertIdle

ApplyCorrections ==
    /\ correctedText = {}
    /\ correctedText' = {applyCorrections(sourceText, correctionDict)}
    /\ UNCHANGED <<sourceText, correctionDict, correctedAgain, rangeVars, tocVars,
                   bookVars, epubVars, scanVars, downloadVars, convertVars>>

ApplyCorrectionsAgain ==
    /\ correctedText # {}
    /\ correctedAgain = {}
    /\ correctedAgain' = { applyCorrections(r, correctionDict) : r \in correctedText }
    /\ UNCHANGED <<sourceText, correctionDict, correctedText, rangeVars, tocVars,
                   bookVars, epubVars, scanVars, downloadVars, convertVars>>

NextCorrect == ApplyCorrections \/ ApplyCorrectionsAgain

SpecCorrect == InitCorrect /\ [][NextCorrect]_vars

(***************************************************************************)
(* Specification of applyCorrections on texts with an accented letter and  *)
(* a digit, and a dictionary of one entry whose key is made of letters.    *)
(***************************************************************************)
WordTexts == UNION { [1..k -> {"a", dStroke, " ", "1"}] : k \in 0..MaxText }

WordKeys == { <<"a">>, <<dStroke>>, <<"a", dStroke>>, <<dStroke, "a">> }

InitWords ==
    /\ sourceText \in WordTexts
    /\ correctionDict \in { << [wrong |-> k, correct |-> <<"b">>] >> : k \in WordKeys }
    /\ correctedText = {}
    /\ correctedAgain = {}
    /\ RangeIdle
    /\ TocIdle
    /\ BookIdle
    /\ EpubIdle
    /\ ScanIdle
    /\ DownloadIdle
    /\ ConvertIdle

SpecWords == InitWords /\ [][NextCorrect]_vars

(***************************************************************************)
(* Specification of a conversion request: the page posts the form          *)
(* (+page.svelte convertPdfToEpub), processPdf answers on the stream       *)
(* (index.ts lines 31-184), the page reads the stream.  A chunk is the     *)
(* text one sendProgress writes, `data: ${message}\n\n`, with the prefix,  *)
(* the parts of the message and the blank line as its elements.            *)
(***************************************************************************)
\* encoder.encode(`data: ${message}\n\n`)
sendProgress(message) == <<"data: ">> \o message \o <<"\n\n">>

SendAll(messages) == [i \in 1..Len(messages) |-> sendProgress(messages[i])]

JsString(str) == [type |-> "string", val |-> str]
JsObject(entries) == [type |-> "object", val |-> entries]
JsFunction(name) == [type |-> "function", val |-> name]

\* const [bookPage, pdfPage] = pageCorrectionRaw.split('=').map(Number): a
\* part that is not there is undefined, and isNaN(undefined) is true.
ParseCorrection(raw) ==
    LET parts == Split(raw, "=")
    IN  [bookPage |-> NumberOf(parts[1]),
         pdfPage |-> IF Len(parts) >= 2 THEN NumberOf(parts[2]) ELSE NaN]

\* Object.keys(value).length: a function has no own enumerable keys.
ObjectKeysLength(value) ==
    IF value.type = "object" THEN Cardinality(DOMAIN value.val) ELSE 0

\* applyCorrectionsToOcrFiles(sourceDir, destDir, correctionDict,
\* sendProgress) (ocr.ts lines 72-104): what it sends, and whether it
\* throws.  Calling a sendProgress that is no function is a TypeError, and
\* so is fs.mkdir on a destDir that is no string.  The messages of the
\* per-file loop are left out.
applyCorrectionsToOcrFiles(sourceDir, destDir, dict, progress) ==
    IF ObjectKeysLength(dict) = 0
    THEN IF progress.type = "function"
         THEN [threw |-> FALSE,
               sent |-> << <<"No correction dictionary loaded, skipping correction step.">> >>,
               message |-> <<>>]
         ELSE [threw |-> TRUE, sent |-> <<>>,
               message |-> <<"sendProgress is not a function">>]
    ELSE IF destDir.type # "string"
    THEN [threw |-> TRUE, sent |-> <<>>,
          message |-> <<"The \"path\" argument must be of type string">>]
    ELSE IF progress.type # "function"
    THEN [threw |-> TRUE, sent |-> <<>>,
          message |-> <<"sendProgress is not a function">>]
    ELSE [threw |-> FALSE,
          sent |-> << <<"Applying corrections to OCR files...">>,
                      <<"Correction of OCR files complete.">> >>,
          message |-> <<>>]

\* The page-correction field: every string of at most MaxCorrection
\* characters over two digits, the equals sign, a blank and a letter.
CorrectionStrings ==
    UNION { [1..k -> {"1", "2", "=", " ", "a"}] : k \in 0..MaxCorrection }

\* The toc field: empty, a valid line, a line without a colon.
TocFields == { <<>>, <<"a", ":", "1", "-", "2">>, <<"a", " ", "1", "-", "2">> }

InitConvert ==
    /\ pdfFile \in {"none", "large", "ok"}
    /\ pageCorrectionRaw \in CorrectionStrings
    /\ tocRaw \in TocFields
    /\ totalPdfPages \in {1, 2}
    /\ validation = {}
    /\ pageOffset = 0
    /\ userChapters = <<>>
    /\ finalChapters = {}
    /\ serverPc = "idle"
    /\ stream = <<>>
    /\ closes = 0
    /\ tempDir = {}
    /\ worker = "none"
    /\ ocrIndex = 0
    /\ recognition = <<>>
    /\ ClientIdle
    /\ RangeIdle
    /\ EpubIdle
    /\ ScanIdle
    /\ CorrIdle
    /\ DownloadIdle

\* What a conversion request leaves alone.
ConvertFrame ==
    UNCHANGED <<rangeVars, finalChapters, epubVars, scanVars, corrVars, downloadVars>>

\* What the steps of processPdf outside performOcr leave alone.
OcrFrame == UNCHANGED ocrVars

\* convertPdfToEpub up to the fetch (+page.svelte): without a file nothing
\* is posted.
Convert ==
    /\ clientPc = "idle"
    /\ epubDownloadLink' = <<>>
    /\ IF pdfFile = "none"
       THEN /\ conversionStatus' = <<"Please select a PDF file first.">>
            /\ clientPc' = "done"
            /\ UNCHANGED serverPc
       ELSE /\ conversionStatus' = <<"Uploading and converting...">>
            /\ clientPc' = "reading"
            /\ serverPc' = "form"
    /\ UNCHANGED <<pdfFile, pageCorrectionRaw, stream, closes, tempDir, readCount,
                   tocVars, totalPdfPages, pageOffset, userChapters>>
    /\ OcrFrame
    /\ ConvertFrame

\* An early return that sends its message and goes on with the request.
Abort_GoOn(messages) ==
    /\ stream' = stream \o SendAll(messages)
    /\ closes' = closes
    /\ serverPc' = "validated"

\* An early return of processPdf: the message, writer.close(), return, and
\* the writer.close() of the finally block.
Abort(messages) ==
    /\ stream' = stream \o SendAll(messages)
    /\ closes' = closes + 2
    /\ serverPc' = "closed"

\* The catch block of processPdf and the finally block after it.
Catch(messages, message) ==
    /\ stream' = stream \o SendAll(messages)
                    \o << sendProgress(<<"Error: An error occurred during conversion: ">>
                                       \o message) >>
    /\ closes' = closes + 1
    /\ serverPc' = "closed"

\* processPdf from the form data to the TOC (index.ts lines 34-81).
ReadForm ==
    /\ serverPc = "form"
    /\ \E correction \in {ParseCorrection(pageCorrectionRaw)},
          given \in {Trim(pageCorrectionRaw) # <<>>},
          result \in {validateToc(tocRaw)} :
       LET noCorrection ==
               IF given THEN <<>>
               ELSE << <<"No page correction provided, assuming 1:1 page mapping.">> >>
       IN  IF pdfFile = "none"
           THEN /\ Abort(<< <<"Error: No PDF file uploaded.">> >>)
                /\ UNCHANGED <<pageOffset, validation, userChapters>>
           ELSE IF pdfFile = "large"
           THEN /\ Abort(<< <<"Error: File too large. Maximum size is 50MB.">> >>)
                /\ UNCHANGED <<pageOffset, validation, userChapters>>
           ELSE IF given /\ (correction.bookPage.nan \/ correction.pdfPage.nan)
           THEN /\ Abort(<< <<"Error: Invalid page correction format. Please use book_page=pdf_page.">> >>)
                /\ UNCHANGED <<pageOffset, validation, userChapters>>
           ELSE /\ pageOffset' = IF given
                                 THEN IntOf(correction.pdfPage) - IntOf(correction.bookPage)
                                 ELSE 0
                /\ IF Trim(tocRaw) # <<>>
                   THEN /\ validation' = {result}
                        /\ IF ~result.valid
                           THEN /\ Abort(noCorrection
                                         \o << <<"Error: ">>
                                                \o (CHOOSE e \in result.error : TRUE).msg >>)
                                /\ UNCHANGED userChapters
                           ELSE /\ userChapters' = CHOOSE chs \in result.chapters : TRUE
                                /\ stream' = stream \o SendAll(noCorrection)
                                /\ serverPc' = "validated"
                                /\ UNCHANGED closes
                   ELSE /\ stream' = stream \o SendAll(noCorrection \o
                               << <<"No Table of Contents provided, treating book as a single chapter.">> >>)
                        /\ serverPc' = "validated"
                        /\ UNCHANGED <<closes, validation, userChapters>>
    /\ UNCHANGED <<pdfFile, pageCorrectionRaw, tempDir, clientVars, tocRaw, totalPdfPages>>
    /\ OcrFrame
    /\ ConvertFrame

\* The temp directory as the set of its entries <<kind, page, content>>:
\* a directory, the saved PDF, the image of a page, the text of a page.  The
\* content of a file is the PDF it comes from.
Files(kind) == { f \in tempDir : f[1] = kind }

Directory(name) == <<"dir", 0, name>>

\* "Create temp directory" and "Save PDF if not exists" (lines 83-97).  The
\* hash is that of the file name, so a PDF saved under the same name by an
\* earlier request is found and kept.
SavePdf ==
    /\ serverPc = "validated"
    /\ tempDir' = tempDir \cup {Directory("pdf-to-epub-<hash>")}
                    \cup (IF Files("pdf") = {} THEN {<<"pdf", 0, pdfFile>>} ELSE {})
    /\ stream' = stream \o SendAll(
           IF Files("pdf") # {}
           THEN << <<"PDF already exists, skipping upload.">> >>
           ELSE << <<"Uploading PDF...">> >>)
    /\ serverPc' = "saved"
    /\ UNCHANGED <<pdfFile, pageCorrectionRaw, closes, clientVars, tocVars,
                   totalPdfPages, pageOffset, userChapters>>
    /\ OcrFrame
    /\ ConvertFrame

\* convertPdfToImages (pdf.ts): nothing is done when the images directory
\* has an entry; otherwise the pages of the saved PDF are written one by
\* one, all of them, or the first `written` of them before pdf() or
\* writeFile throws.
ConvertPdfToImages ==
    /\ serverPc = "saved"
    /\ IF Files("image") # {}
       THEN /\ stream' = stream \o SendAll(<< <<"Images already extracted.">> >>)
            /\ tempDir' = tempDir \cup {Directory("images")}
            /\ serverPc' = "extracted"
            /\ UNCHANGED closes
       ELSE \E written \in 0..totalPdfPages :
              LET saved == (CHOOSE f \in Files("pdf") : TRUE)[3]
                  sent == << <<"Converting PDF to images...">> >>
                          \o [i \in 1..written |->
                                <<"Extracting page ">> \o IntToString(i) \o <<"...">>]
              IN  /\ tempDir' = tempDir \cup {Directory("images")}
                                  \cup { <<"image", i, saved>> : i \in 1..written }
                  /\ IF written < totalPdfPages
                     THEN Catch(sent, <<"Invalid PDF">>)
                     ELSE /\ stream' = stream \o SendAll(sent)
                          /\ serverPc' = "extracted"
                          /\ UNCHANGED closes
    /\ UNCHANGED <<pdfFile, pageCorrectionRaw, clientVars, tocVars,
                   totalPdfPages, pageOffset, userChapters>>
    /\ OcrFrame
    /\ ConvertFrame

MAX_OCR_RETRIES == 3

\* The for loop of recognizeWithRetry from attempt i on (ocr.ts lines
\* 16-29).  outcomes[k] tells whether the k-th worker.recognize returns a
\* text or throws.  The result: how many times the worker was called,
\* whether an error is thrown, and the text returned or error thrown, named
\* by the attempt it comes from (attempt 0: the error made at line 29).
RECURSIVE RetryLoop(_, _, _)
RetryLoop(outcomes, maxRetries, i) ==
    IF i >= maxRetries
    THEN [calls |-> i, threw |-> TRUE, value |-> <<"error", 0>>]
    ELSE IF outcomes[i + 1] = "text"
    THEN [calls |-> i + 1, threw |-> FALSE, value |-> <<"text", i + 1>>]
    ELSE IF i = maxRetries - 1
    THEN [calls |-> i + 1, threw |-> TRUE, value |-> <<"error", i + 1>>]
    ELSE RetryLoop(outcomes, maxRetries, i + 1)

\* recognizeWithRetry giving up after the first attempt.
recognizeWithRetry_Once(outcomes, maxRetries) == RetryLoop(outcomes, 1, 0)

\* recognizeWithRetry(worker, imagePath, maxRetries)
recognizeWithRetry(outcomes, maxRetries) == RetryLoop(outcomes, maxRetries, 0)

\* imageFiles.length
imageFilesLength == Cardinality(Files("image"))

\* performOcr up to its loop (ocr.ts lines 40-45).
StartOcr ==
    /\ serverPc = "extracted"
    /\ tempDir' = tempDir \cup {Directory("ocr")}
    /\ worker' = "active"
    /\ ocrIndex' = 0
    /\ serverPc' = "ocr"
    /\ UNCHANGED <<pdfFile, pageCorrectionRaw, stream, closes, recognition, clientVars,
                   tocVars, totalPdfPages, pageOffset, userChapters>>
    /\ ConvertFrame

\* One iteration of the loop of performOcr (lines 48-63): a page whose text
\* file exists is passed over; any other is recognized and its text
\* written, or recognizeWithRetry throws, the finally block terminates the
\* worker and the error reaches the catch block of processPdf.
OcrPage ==
    /\ serverPc = "ocr"
    /\ ocrIndex < imageFilesLength
    /\ LET page == ocrIndex + 1
       IN  IF \E f \in Files("text") : f[2] = page
           THEN /\ stream' = stream \o SendAll(
                       << <<"OCR for page ">> \o IntToString(page)
                          \o <<" already exists.">> >>)
                /\ ocrIndex' = ocrIndex + 1
                /\ UNCHANGED <<tempDir, worker, recognition, closes, serverPc>>
           ELSE \E outcomes \in [1..MAX_OCR_RETRIES -> {"text", "error"}] :
                  LET result == recognizeWithRetry(outcomes, MAX_OCR_RETRIES)
                      notice == <<"OCR on page ">> \o IntToString(page) \o <<"/">>
                                \o IntToString(imageFilesLength) \o <<"...">>
                      image == CHOOSE f \in Files("image") : f[2] = page
                  IN  /\ recognition' = [page |-> page, outcomes |-> outcomes,
                                         result |-> result]
                      /\ IF result.threw
                         THEN /\ worker' = "terminated"
                              /\ Catch(<<notice>>, <<"recognize failed">>)
                              /\ UNCHANGED <<tempDir, ocrIndex>>
                         ELSE /\ tempDir' = tempDir \cup {<<"text", page, image[3]>>}
                              /\ ocrIndex' = ocrIndex + 1
                              /\ stream' = stream \o SendAll(<<notice>>)
                              /\ UNCHANGED <<worker, closes, serverPc>>
    /\ UNCHANGED <<pdfFile, pageCorrectionRaw, clientVars, tocVars,
                   totalPdfPages, pageOffset, userChapters>>
    /\ ConvertFrame

\* The end of the loop of performOcr and its finally block (lines 64-66).
FinishOcr ==
    /\ serverPc = "ocr"
    /\ ocrIndex = imageFilesLength
    /\ worker' = "terminated"
    /\ serverPc' = "recognized"
    /\ UNCHANGED <<pdfFile, pageCorrectionRaw, stream, closes, tempDir, ocrIndex,
                   recognition, clientVars, tocVars, totalPdfPages, pageOffset,
                   userChapters>>
    /\ ConvertFrame

\* "Load dictionaries" and "Apply corrections to OCR files" (index.ts
\* lines 107-117).  The call gives applyCorrectionsToOcrFiles three
\* arguments for its four parameters: destDir receives the dictionary,
\* correctionDict receives sendProgress, sendProgress receives nothing.
\* processPdf goes on after this step only if the call returns.
CorrectOcrFiles ==
    /\ serverPc = "recognized"
    /\ \E correctionLoaded \in BOOLEAN :
           LET loaded == IF correctionLoaded
                         THEN << <<"Correction dictionary loaded.">> >>
                         ELSE << <<"Correction dictionary not found, skipping correction.">> >>
               call == applyCorrectionsToOcrFiles(
                           JsString("ocr"),
                           JsObject(IF correctionLoaded
                                    THEN << [wrong |-> Foo, correct |-> Bar] >>
                                    ELSE <<>>),
                           JsFunction("sendProgress"),
                           JsUndefined)
           IN  IF call.threw
               THEN Catch(loaded \o call.sent, call.message)
               ELSE /\ stream' = stream \o SendAll(loaded \o call.sent)
                    /\ serverPc' = "corrected"
                    /\ UNCHANGED closes
    /\ UNCHANGED <<pdfFile, pageCorrectionRaw, tempDir, clientVars, tocVars,
                   totalPdfPages, pageOffset, userChapters>>
    /\ OcrFrame
    /\ ConvertFrame

\* The for loop over the lines of one chunk (+page.svelte lines 76-92).
RECURSIVE ReadLines(_, _)
ReadLines(lines, shown) ==
    IF lines = <<>> THEN shown
    ELSE LET line == Head(lines)
         IN  IF line # <<>> /\ Head(line) = "data: "
             THEN ReadLines(Tail(lines), [shown EXCEPT !.conversionStatus = Tail(line)])
             ELSE IF line # <<>> /\ Head(line) = "epub:"
             THEN ReadLines(Tail(lines),
                            [conversionStatus |->
                                 <<"Conversion successful! Click to download.">>,
                             epubDownloadLink |-> <<"blob:">> \o Tail(line)])
             ELSE ReadLines(Tail(lines), shown)

\* One reader.read() that returns a chunk, and the loop over its lines.
ReadChunk ==
    /\ clientPc = "reading"
    /\ readCount < Len(stream)
    /\ LET shown == ReadLines(Split(stream[readCount + 1], "\n\n"),
                              [conversionStatus |-> conversionStatus,
                               epubDownloadLink |-> epubDownloadLink])
       IN  /\ conversionStatus' = shown.conversionStatus
           /\ epubDownloadLink' = shown.epubDownloadLink
    /\ readCount' = readCount + 1
    /\ UNCHANGED <<clientPc, serverVars, tocVars, totalPdfPages, pageOffset, userChapters>>
    /\ ConvertFrame

\* reader.read() returns done: the stream is closed and read to its end.
ReadDone ==
    /\ clientPc = "reading"
    /\ readCount = Len(stream)
    /\ closes > 0
    /\ clientPc' = "done"
    /\ UNCHANGED <<readCount, conversionStatus, epubDownloadLink, serverVars,
                   tocVars, totalPdfPages, pageOffset, userChapters>>
    /\ ConvertFrame

NextConvert ==
    \/ Convert
    \/ ReadForm
    \/ SavePdf
    \/ ConvertPdfToImages
    \/ StartOcr
    \/ OcrPage
    \/ FinishOcr
    \/ CorrectOcrFiles
    \/ ReadChunk
    \/ ReadDone

SpecConvert == InitConvert /\ [][NextConvert]_vars

\* The requests of the second specification: no page correction, the
\* README's form of one, one without its right side, one that is no number.
LiveCorrections == { <<>>, <<"1", "=", "2">>, <<"1", "=">>, <<"a">> }

InitConvertLive ==
    /\ InitConvert
    /\ pageCorrectionRaw \in LiveCorrections

\* processPdf and the reading loop of the page both run on until they are
\* done: no step that can be taken is put off for ever.
SpecConvertLive == InitConvertLive /\ [][NextConvert]_vars /\ WF_vars(NextConvert)

(***************************************************************************)
(* Specification of requests that follow one another: after a request is   *)
(* over the page posts a file of the same name again, the same PDF or      *)
(* another one.  The temp directory stays as the earlier request left it.  *)
(***************************************************************************)
InitResume ==
    /\ InitConvert
    /\ pdfFile = "ok"
    /\ pageCorrectionRaw = <<>>
    /\ tocRaw = <<>>

\* The user picks a file of the same name and converts again: a new
\* request, a new stream, the same pdf-to-epub-<hash>.
Resubmit ==
    /\ serverPc = "closed"
    /\ clientPc = "done"
    /\ pdfFile' \in {pdfFile, "other"}
    /\ serverPc' = "idle"
    /\ clientPc' = "idle"
    /\ stream' = <<>>
    /\ closes' = 0
    /\ readCount' = 0
    /\ worker' = "none"
    /\ ocrIndex' = 0
    /\ UNCHANGED <<pageCorrectionRaw, tempDir, recognition, conversionStatus,
                   epubDownloadLink, tocVars, totalPdfPages, pageOffset, userChapters>>
    /\ ConvertFrame

NextResume == NextConvert \/ Resubmit

SpecResume == InitResume /\ [][NextResume]_vars

(***************************************************************************)
(* Specification of the download endpoint (index.ts lines 197-227).  A     *)
(* path is the sequence of its segments, each segment a text.              *)
(***************************************************************************)
HashLength == 32

HexDigits == DigitSet \cup {"a", "b", "c", "d", "e", "f", "A", "B", "C", "D", "E", "F"}

\* /^[a-f0-9]{32}$/i.test(hash)
isValidHash(h) == Len(h) = HashLength /\ \A i \in 1..Len(h) : h[i] \in HexDigits

\* path.basename: the part after the last slash, trailing slashes dropped.
RECURSIVE basename(_)
basename(p) ==
    IF p = <<>> THEN <<>>
    ELSE IF p[Len(p)] = "/" THEN basename(SubSeq(p, 1, Len(p) - 1))
    ELSE LET parts == Split(p, "/") IN parts[Len(parts)]

\* The normalisation path.join ends with: empty segments and "." are
\* dropped, ".." takes the segment before it away.
RECURSIVE Normalize(_, _)
Normalize(segments, done) ==
    IF segments = <<>> THEN done
    ELSE LET seg == Head(segments)
         IN  IF seg = <<>> \/ seg = <<".">>
             THEN Normalize(Tail(segments), done)
             ELSE IF seg = <<".", ".">>
             THEN Normalize(Tail(segments),
                            IF done = <<>> THEN <<>> ELSE SubSeq(done, 1, Len(done) - 1))
             ELSE Normalize(Tail(segments), Append(done, seg))

\* path.join(dir, name) of an absolute dir and a relative name
PathJoin(dir, name) == Normalize(dir \o Split(name, "/"), <<>>)

\* process.cwd()
Cwd == << <<"a", "p", "p">> >>

\* path.join(process.cwd(), CONFIG.TEMP_DIR, `pdf-to-epub-${hash}`)
TempDirOf(h) ==
    PathJoin(PathJoin(Cwd, <<".", "/", "t", "m", "p">>),
             <<"p", "d", "f", "-", "t", "o", "-", "e", "p", "u", "b", "-">> \o h)

\* The hash parameters: 32 hexadecimal characters in either case, one
\* character less, one more, and a non-hexadecimal character.
Hashes ==
    { [i \in 1..HashLength |-> "a"],
      [i \in 1..HashLength |-> IF i % 2 = 0 THEN "F" ELSE "0"],
      [i \in 1..(HashLength - 1) |-> "a"],
      [i \in 1..(HashLength + 1) |-> "a"],
      [i \in 1..HashLength |-> IF i = 1 THEN "g" ELSE "a"],
      [i \in 1..HashLength |-> IF i <= 2 THEN "." ELSE "a"] }

EpubName == <<"b", ".", "e", "p", "u", "b">>

\* The filename parameters, percent-decoded by the router: the EPUB, a file
\* that is not there, and names with dots and slashes.
Filenames ==
    { EpubName, <<"x">>, <<".">>, <<".", ".">>, <<".", ".", "/">>,
      <<"a", "/", ".", ".">>, <<".", ".", "/", "x">>, <<".", ".", "/", ".", ".">>,
      <<".", ".", "/">> \o EpubName }

InitDownload ==
    /\ hash \in Hashes
    /\ filename \in Filenames
    /\ accessed = {}
    /\ response = {}
    /\ RangeIdle
    /\ TocIdle
    /\ BookIdle
    /\ EpubIdle
    /\ ScanIdle
    /\ CorrIdle
    /\ ConvertIdle

\* What is at a path when the temp directory of the hash holds the EPUB
\* (converted) or was never made: a file, a directory, or nothing.
EntryAt(filePath, converted) ==
    LET dir == TempDirOf(hash)
    IN  IF converted /\ filePath = Append(dir, EpubName) THEN "file"
        ELSE IF filePath = Cwd THEN "directory"
        ELSE IF converted /\ Len(filePath) <= Len(dir)
                /\ filePath = SubSeq(dir, 1, Len(filePath)) THEN "directory"
        ELSE "none"

\* app.get('/api/download/:hash/:filename')
Download ==
    /\ response = {}
    /\ IF ~isValidHash(hash)
       THEN /\ response' = {400}
            /\ UNCHANGED accessed
       ELSE \E converted \in BOOLEAN :
              LET safeFilename == basename(filename)
                  filePath == PathJoin(TempDirOf(hash), safeFilename)
                  entry == EntryAt(filePath, converted)
              IN  /\ accessed' = {[op |-> "access", path |-> filePath]}
                          \cup (IF entry = "none" THEN {}
                                ELSE {[op |-> "readFile", path |-> filePath]})
                  /\ response' = {IF entry = "file" THEN 200 ELSE 404}
    /\ UNCHANGED <<hash, filename, rangeVars, tocVars, bookVars, epubVars,
                   scanVars, corrVars, convertVars>>

NextDownload == Download

SpecDownload == InitDownload /\ [][NextDownload]_vars

(***************************************************************************)
(* Claims about the page-range parser (SpecRange).                         *)
(***************************************************************************)

\* C7: parsePageRange accepts exactly the strings that match ^\d+-\d+$
\* after trimming: it returns a range for each of them and null for every
\* other string, so it agrees with isValidPageRange on every input.
C7_ParserAcceptsExactlyPattern ==
    \A r \in range :
        /\ r.ok <=> MatchesRangePattern(Trim(pages))
        /\ \A v \in validRange : r.ok <=> v

\* A half of a page range in canonical decimal form: "0", or digits that do
\* not begin with 0.
CanonicalDigits(s) == AllDigits(s) /\ (Len(s) = 1 \/ Head(s) # "0")

CanonicalRange(s) ==
    \E k \in 1..Len(s) :
        /\ s[k] = "-"
        /\ CanonicalDigits(SubSeq(s, 1, k - 1))
        /\ CanonicalDigits(SubSeq(s, k + 1, Len(s)))

\* C8 (as claimed): for every string x matching ^\d+-\d+$, parsing x and
\* writing the result back as `${start}-${end}` reproduces x.
C8_RoundTripAllValid ==
    \A r \in range :
        MatchesRangePattern(pages) =>
            r.ok /\ FormatRange(r.start, r.end) = pages

\* C8 (amended): the round trip reproduces x for every x matching
\* ^\d+-\d+$ whose two halves are written without leading zeros.
C8_RoundTripCanonical ==
    \A r \in range :
        CanonicalRange(pages) =>
            r.ok /\ FormatRange(r.start, r.end) = pages

C8_Witness ==
    /\ range # {}
    /\ CanonicalRange(pages)
    /\ Len(pages) = MaxLen
    /\ \E r \in range : r.start # r.end

(***************************************************************************)
(* Claims about validateToc (SpecToc).                                     *)
(***************************************************************************)
CountChar(s, c) == Cardinality({i \in 1..Len(s) : s[i] = c})

IsBlank(s) == \A i \in 1..Len(s) : s[i] \in WhiteSpace

\* The non-blank lines of a text, in input order.
NonBlankLines(raw) == SelectSeq(Split(raw, NewLine), LAMBDA l : ~IsBlank(l))

ColonAt(l) == CHOOSE i \in 1..Len(l) : l[i] = Colon
TitleOf(l) == Trim(SubSeq(l, 1, ColonAt(l) - 1))
PagesOf(l) == Trim(SubSeq(l, ColonAt(l) + 1, Len(l)))

\* The defects of a line: not exactly one colon; an empty title; a page
\* segment that is not digits-dash-digits.
LineDefects(l) ==
    IF CountChar(l, Colon) # 1 THEN {"colon"}
    ELSE (IF TitleOf(l) = <<>> THEN {"title"} ELSE {})
         \cup (IF MatchesRangePattern(PagesOf(l)) THEN {} ELSE {"pages"})

InvalidLines(raw) ==
    {i \in 1..Len(NonBlankLines(raw)) : LineDefects(NonBlankLines(raw)[i]) # {}}

FirstInvalid(raw) ==
    CHOOSE i \in InvalidLines(raw) : \A j \in InvalidLines(raw) : i <= j

\* The error names the line (or its page segment) and a defect it has.
ErrorFits(e, l) ==
    \/ e.msg = "Invalid TOC line" /\ "colon" \in LineDefects(l) /\ e.about = Trim(l)
    \/ e.msg = "Empty chapter title in line" /\ "title" \in LineDefects(l)
       /\ e.about = Trim(l)
    \/ e.msg = "Invalid page range" /\ "pages" \in LineDefects(l)
       /\ e.about = PagesOf(l)

\* Chapters written in the documented format: a plain one and the README's
\* two examples.
DocumentedChapters ==
    { [title |-> <<"b">>, pages |-> <<"2", "-", "3">>],
      [title |-> ReadmeTitle1, pages |-> ReadmePages1],
      [title |-> ReadmeTitle2, pages |-> ReadmePages2] }

\* C4: every line in the documented format `Chapter Title: start-end`,
\* the README's two example lines included, is accepted by validateToc and
\* yields a chapter with that title and that page range.
C4_DocumentedLinesAccepted ==
    \A v \in validation : \A ch \in DocumentedChapters :
        tocRaw = DocumentedLine(ch.title, ch.pages) =>
            v.valid /\ v.chapters = {<<ch>>}

\* C5: validateToc is all-or-nothing: if any non-blank line is invalid the
\* result is valid=false, carries the error of the first invalid line in
\* input order, and carries no chapter list.
C5_AllOrNothing ==
    \A v \in validation :
        InvalidLines(tocRaw) # {} =>
            /\ ~v.valid
            /\ v.chapters = {}
            /\ Cardinality(v.error) = 1
            /\ \A e \in v.error :
                   ErrorFits(e, NonBlankLines(tocRaw)[FirstInvalid(tocRaw)])

C5_Witness ==
    /\ validation # {}
    /\ InvalidLines(tocRaw) # {}
    /\ FirstInvalid(tocRaw) > 1

\* C6: for every valid TOC text validateToc returns exactly one chapter per
\* non-blank line, in the order of the lines, each with the trimmed title
\* and the trimmed page range of its line.
C6_ChaptersInLineOrder ==
    \A v \in validation :
        InvalidLines(tocRaw) = {} =>
            /\ v.valid
            /\ v.error = {}
            /\ v.chapters =
                   { [i \in 1..Len(NonBlankLines(tocRaw)) |->
                         [title |-> TitleOf(NonBlankLines(tocRaw)[i]),
                          pages |-> PagesOf(NonBlankLines(tocRaw)[i])]] }

C6_Witness ==
    /\ validation # {}
    /\ InvalidLines(tocRaw) = {}
    /\ Len(NonBlankLines(tocRaw)) = 2
    /\ Len(Split(tocRaw, NewLine)) = 3
    /\ TitleOf(NonBlankLines(tocRaw)[1]) # TitleOf(NonBlankLines(tocRaw)[2])

(***************************************************************************)
(* Claims about generateFinalChapters (SpecChapters).                      *)
(***************************************************************************)
DashAt(s) == CHOOSE k \in 1..Len(s) : s[k] = "-"

\* The two numbers of a `digits-digits` page range.
RangeStart(s) == DecimalValue(SubSeq(s, 1, DashAt(s) - 1))
RangeEnd(s) == DecimalValue(SubSeq(s, DashAt(s) + 1, Len(s)))

UserStart(i) == RangeStart(userChapters[i].pages)
UserEnd(i) == RangeEnd(userChapters[i].pages)
UserIndexes == 1..Len(userChapters)

\* The user chapter that comes first, and the one that comes last, when the
\* chapters are ordered by start page and chapters with the same start keep
\* their input order.
FirstInOrder ==
    CHOOSE i \in UserIndexes :
        \A j \in UserIndexes :
            UserStart(i) < UserStart(j) \/ (UserStart(i) = UserStart(j) /\ i <= j)

LastInOrder ==
    CHOOSE i \in UserIndexes :
        \A j \in UserIndexes :
            UserStart(j) < UserStart(i) \/ (UserStart(j) = UserStart(i) /\ j <= i)

firstStart == UserStart(FirstInOrder)
lastEnd == UserEnd(LastInOrder)

RangeText(a, b) == IntToString(a) \o <<"-">> \o IntToString(b)

\* C9: generateFinalChapters prepends a chapter titled "Introduction" if and
\* only if the first chapter in sorted order starts after bookStartPage; the
\* chapter then spans [bookStartPage, firstStart - 1]; with firstStart equal
\* to bookStartPage no Introduction is added.  (A range that starts at a
\* non-negative page is also read back by parsePageRange as that range.)
C9_IntroductionIffGapAtStart ==
    \A f \in finalChapters :
        userChapters # <<>> =>
            IF firstStart > bookStartPage
            THEN /\ Len(f) >= Len(userChapters) + 1
                 /\ f[1] = [title |-> Introduction,
                            pages |-> RangeText(bookStartPage, firstStart - 1)]
                 /\ f[2] = userChapters[FirstInOrder]
                 /\ bookStartPage >= 0 =>
                        parsePageRange(f[1].pages) =
                            [ok |-> TRUE, start |-> Num(bookStartPage),
                             end |-> Num(firstStart - 1)]
            ELSE /\ Len(f) <= Len(userChapters) + 1
                 /\ f[1] = userChapters[FirstInOrder]

C9_Witness ==
    /\ finalChapters # {}
    /\ Len(userChapters) = 2
    /\ FirstInOrder = 2
    /\ firstStart > bookStartPage
    /\ bookStartPage < 0

\* C10: generateFinalChapters appends a chapter titled "Appendices" if and
\* only if the end of the last chapter in sorted order is less than
\* bookEndPage; the chapter then spans [lastEnd + 1, bookEndPage]; with
\* lastEnd equal to bookEndPage no Appendices is added.
C10_AppendicesIffGapAtEnd ==
    \A f \in finalChapters :
        userChapters # <<>> =>
            IF lastEnd < bookEndPage
            THEN /\ Len(f) >= Len(userChapters) + 1
                 /\ f[Len(f)] = [title |-> Appendices,
                                 pages |-> RangeText(lastEnd + 1, bookEndPage)]
                 /\ f[Len(f) - 1] = userChapters[LastInOrder]
                 /\ parsePageRange(f[Len(f)].pages) =
                        [ok |-> TRUE, start |-> Num(lastEnd + 1),
                         end |-> Num(bookEndPage)]
            ELSE /\ Len(f) <= Len(userChapters) + 1
                 /\ f[Len(f)] = userChapters[LastInOrder]

C10_Witness ==
    /\ finalChapters # {}
    /\ Len(userChapters) = 2
    /\ LastInOrder = 1
    /\ lastEnd < bookEndPage
    /\ UserEnd(2) > lastEnd

(***************************************************************************)
(* Claims about reconciliation and assembly together (SpecEpub).           *)
(***************************************************************************)
MaxUserEnd == CHOOSE e \in {UserEnd(i) : i \in UserIndexes} :
                  \A i \in UserIndexes : UserEnd(i) <= e

\* The book page of a physical page.
BookPageOf(q) == q - pageOffset

\* The physical pages with non-blank text.
NonBlankPages == {q \in 1..totalPdfPages : ~IsBlank(ocrDir[q])}

\* Page p is part of an emitted chapter with one of the given titles.
InEmittedChapter(p, titles) ==
    \E k \in 1..Len(chaptersFolder) :
        chaptersFolder[k].title \in titles /\ p \in chaptersFolder[k].pages

\* C1: no content is lost: for every page count, every offset and every
\* valid TOC whose chapters lie inside the book span, each physical page
\* with non-blank text that lies before the first user chapter or after the
\* last one is part of an emitted chapter, the synthesized Introduction or
\* Appendices.
C1_NoContentLost ==
    (epubPc = "done" /\ userChapters # <<>>) =>
        \A q \in NonBlankPages :
            (BookPageOf(q) < firstStart \/ BookPageOf(q) > MaxUserEnd) =>
                InEmittedChapter(BookPageOf(q), {Introduction, Appendices})

\* The pages of a chapter, as parsePageRange reads its page range.
ChapterPageSet(ch) ==
    LET r == parsePageRange(ch.pages)
    IN  IF r.ok THEN IntOf(r.start)..IntOf(r.end) ELSE {}

\* The pages the user left out between consecutive user chapters.
UserGaps ==
    LET sorted == SortChapters(userChapters)
    IN  UNION { (IntOf(EndOf(sorted[i])) + 1)..(IntOf(StartOf(sorted[i + 1])) - 1) :
                  i \in 1..(Len(sorted) - 1) }

UserRangesOverlap ==
    \E a, b \in UserIndexes :
        a # b /\ ChapterPageSet(userChapters[a]) \cap ChapterPageSet(userChapters[b]) # {}

\* C2: generateFinalChapters never loses or duplicates coverage: the union
\* of the returned chapters' page ranges plus the gaps between consecutive
\* user chapters is exactly [bookStartPage, bookEndPage], and no two
\* returned ranges overlap unless two user ranges already did.
C2_ExactCoverage ==
    \A f \in finalChapters :
        /\ UNION {ChapterPageSet(f[i]) : i \in 1..Len(f)} \cup UserGaps
               = bookStartPage..bookEndPage
        /\ (\E a, b \in 1..Len(f) :
                a # b /\ ChapterPageSet(f[a]) \cap ChapterPageSet(f[b]) # {})
               => UserRangesOverlap

\* C3: without a TOC the whole book is one chapter: generateFinalChapters
\* returns the single chapter {defaultTitle, bookStartPage-bookEndPage} and
\* the assembled EPUB has exactly one chapter, which holds every physical
\* page that has non-blank text.
C3_NoTocSingleChapter ==
    userChapters = <<>> =>
        /\ \A f \in finalChapters :
               f = << [title |-> bookTitle,
                       pages |-> RangeText(bookStartPage, bookEndPage)] >>
        /\ (epubPc = "done" /\ NonBlankPages # {}) =>
               /\ Len(chaptersFolder) = 1
               /\ \A q \in NonBlankPages : BookPageOf(q) \in chaptersFolder[1].pages

(***************************************************************************)
(* Claims about generateEpub (SpecAssembly).                               *)
(***************************************************************************)
\* The book pages of a chapter whose recognized text exists and is not
\* blank.
PagesWithText(ch) ==
    LET r == parsePageRange(ch.pages)
    IN  IF ~r.ok THEN {}
        ELSE { p \in IntOf(r.start)..IntOf(r.end) :
                 /\ p + pageOffset \in 1..totalPdfPages
                 /\ p + pageOffset \in DOMAIN ocrDir
                 /\ ~IsBlank(ocrDir[p + pageOffset]) }

ChapterOutputs == <<chaptersFolder, opfManifest, opfSpine, tocNcx, playOrder>>

\* C11: a chapter whose every page is out of range, missing or blank, and
\* any chapter whose accumulated content is empty or white space, produces
\* no output: no chapter file, no manifest item, no spine itemref, no nav
\* point (and takes no chapter number).
C11_EmptyChapterNoOutput ==
    [][ /\ (/\ epubPc # "idle"
             /\ chapterIndex' = chapterIndex + 1
             /\ PagesWithText(Chapters[chapterIndex]) = {})
            => UNCHANGED ChapterOutputs
        /\ (epubPc = "page" /\ epubPc' = "chapter" /\ Trim(chapterContent) = <<>>)
            => UNCHANGED ChapterOutputs ]_vars

C11_Witness ==
    /\ epubPc = "done"
    /\ Len(Chapters) = 3
    /\ Len(chaptersFolder) = 2
    /\ parsePageRange(Chapters[2].pages).ok
    /\ PagesWithText(Chapters[2]) = {}
    /\ \E p \in ChapterPageSet(Chapters[2]) : p + pageOffset \in DOMAIN ocrDir

\* The place in the input list of the chapter an emitted title comes from.
InputIndex(title) ==
    CHOOSE i \in 1..Len(Chapters) : sanitizeXml(Chapters[i].title) = title

\* C12: the emitted chapters appear in the manifest, the spine and the nav
\* map in the relative order of the input list, and they are numbered
\* chapter-1..chapter-k consecutively, with the same number in the file
\* name, the manifest, the spine and the nav map.
C12_OrderAndNumbering ==
    epubPc # "idle" =>
        /\ Len(opfManifest) = Len(chaptersFolder) + 1
        /\ Len(opfSpine) = Len(chaptersFolder)
        /\ Len(tocNcx) = Len(chaptersFolder)
        /\ playOrder = Len(chaptersFolder) + 1
        /\ \A k \in 1..Len(chaptersFolder) :
               /\ chaptersFolder[k].name = k
               /\ opfManifest[k + 1] = k
               /\ opfSpine[k] = k
               /\ tocNcx[k].playOrder = k
               /\ tocNcx[k].src = k
               /\ tocNcx[k].label = chaptersFolder[k].title
        /\ \A k, l \in 1..Len(chaptersFolder) :
               k < l => InputIndex(chaptersFolder[k].title)
                            < InputIndex(chaptersFolder[l].title)

C12_Witness ==
    /\ epubPc = "done"
    /\ Len(Chapters) = 3
    /\ Len(chaptersFolder) = 2
    /\ ~parsePageRange(Chapters[2].pages).ok
    /\ chaptersFolder[1].title = Chapters[1].title
    /\ chaptersFolder[2].title = Chapters[3].title

\* The words of a text the vocabulary does not have: runs of letters, lower
\* case, longer than one letter.
UnknownWords(t) ==
    LET words == MatchWords(ToLowerCase(t), <<>>)
    IN  { words[i] : i \in { n \in 1..Len(words) :
                                Len(words[n]) > 1 /\ words[n] \notin vietnameseDict } }

\* The book pages generateEpub reads: pages of a chapter whose range parses,
\* with a physical index inside the PDF and a file in the ocr directory.
PagesRead ==
    { p \in UNION { ChapterPageSet(Chapters[i]) : i \in 1..Len(Chapters) } :
        p + pageOffset \in 1..totalPdfPages /\ p + pageOffset \in DOMAIN ocrDir }

FlaggedWords(t) ==
    IF vietnameseDict = {} THEN {} ELSE UnknownWords(t) \ englishWords

\* The calls so far that flag the word w.
ScansFlagging(w, done) == { i \in 1..Len(done) : w \in FlaggedWords(done[i].text) }

\* C14: the abnormal-word index only grows: a scan removes no word and no
\* page of a word, and after any sequence of scans the page set of a word
\* is exactly the set of the pages it was flagged on (flagged on 5 and
\* then on 6, it is {5, 6}).
C14_IndexOnlyGrows ==
    [][ /\ \A w \in DOMAIN abnormalWords :
               w \in DOMAIN abnormalWords' /\ abnormalWords[w] \subseteq abnormalWords'[w]
        /\ DOMAIN abnormalWords' =
               UNION { FlaggedWords(scans'[i].text) : i \in 1..Len(scans') }
        /\ \A w \in DOMAIN abnormalWords' :
               abnormalWords'[w] =
                   { scans'[i].pageNumber : i \in ScansFlagging(w, scans') } ]_vars

C14_Witness ==
    /\ vietnameseDict = {Hello}
    /\ Len(scans) = 2
    /\ scans[1] = [text |-> Hello \o <<" ">> \o Wrold, pageNumber |-> 5]
    /\ scans[2] = [text |-> Hello \o <<" ">> \o Wrold, pageNumber |-> 6]
    /\ DOMAIN abnormalWords = {Wrold}
    /\ abnormalWords[Wrold] = {5, 6}

\* The word a comes before the word b in the alphabet.
WordBefore(a, b) ==
    \E k \in 0..Len(a) :
        /\ k <= Len(b)
        /\ SubSeq(a, 1, k) = SubSeq(b, 1, k)
        /\ \/ k = Len(a) /\ k < Len(b)
           \/ /\ k < Len(a)
              /\ k < Len(b)
              /\ \E i, j \in 1..26 :
                     i < j /\ LowerCase[i] = a[k + 1] /\ LowerCase[j] = b[k + 1]

\* The word of a report line, and the pages listed after ": ".
LineWord(l) == SubSeq(l, 1, ColonAt(l) - 1)
LinePages(l) == Split(SubSeq(l, ColonAt(l) + 1, Len(l)), ",")

\* C20: the report has exactly one line per word of the index, the lines
\* are in ascending order of the words, each line is `word: p1, p2, ...`
\* with the distinct pages of the word in strictly ascending numeric order,
\* and no report is written when the index is empty.
C20_ReportFormat ==
    \A r \in report :
        /\ r.written <=> DOMAIN abnormalWords # {}
        /\ r.written =>
               LET lines == Split(r.content, NewLine)
               IN  /\ Len(lines) = Cardinality(DOMAIN abnormalWords)
                   /\ { LineWord(lines[i]) : i \in 1..Len(lines) } = DOMAIN abnormalWords
                   /\ \A i \in 1..(Len(lines) - 1) :
                          WordBefore(LineWord(lines[i]), LineWord(lines[i + 1]))
                   /\ \A i \in 1..Len(lines) :
                          LET ps == LinePages(lines[i])
                          IN  /\ \A k \in 1..Len(ps) :
                                     /\ Head(ps[k]) = " "
                                     /\ AllDigits(Tail(ps[k]))
                              /\ \A k \in 1..(Len(ps) - 1) :
                                     DecimalValue(Tail(ps[k])) < DecimalValue(Tail(ps[k + 1]))
                              /\ { DecimalValue(Tail(ps[k])) : k \in 1..Len(ps) }
                                     = abnormalWords[LineWord(lines[i])]

C20_Witness ==
    /\ \E r \in report :
           r.written /\ Len(Split(r.content, NewLine)) = 2
    /\ Len(scans) = 3
    /\ scans[1].pageNumber = 10
    /\ scans[2].pageNumber = 6
    /\ scans[3].pageNumber = 5
    /\ \E w \in DOMAIN abnormalWords : abnormalWords[w] = {5, 6, 10}

(***************************************************************************)
(* Claims about applyCorrections (SpecCorrect).                            *)
(***************************************************************************)
\* Two characters are the same letter, whatever their case.
SameLetter(c, d) ==
    \/ c = d
    \/ \E i \in 1..26 : {c, d} = {LowerCase[i], UpperCase[i]}

IsWordChar(c) == c \in LetterSet \/ c \in DigitSet \/ c = "_"

PlainWord(k) == \A i \in 1..Len(k) : k[i] \in LetterSet

\* The key k occurs in t at position i: the same characters, letter case
\* aside, and for a key of letters only with no word character next to it
\* on either side.
OccursAt(t, i, k) ==
    /\ i >= 1
    /\ i + Len(k) - 1 <= Len(t)
    /\ \A n \in 1..Len(k) : SameLetter(t[i + n - 1], k[n])
    /\ PlainWord(k) =>
           /\ (i = 1 \/ ~IsWordChar(t[i - 1]))
           /\ (i + Len(k) - 1 = Len(t) \/ ~IsWordChar(t[i + Len(k)]))

\* What the capitalization law makes of position i of t under the entry
\* k -> v: an occurrence that starts there becomes v, capitalized when the
\* occurrence starts with an upper-case letter; a character inside an
\* occurrence is gone; any other character stays.  (No key of the model
\* overlaps a shifted copy of itself, so occurrences do not overlap.)
LawAt(t, i, k, v) ==
    IF OccursAt(t, i, k)
    THEN (IF t[i] \in UpperSet /\ v # <<>>
          THEN <<UpperChar(v[1])>> \o SubSeq(v, 2, Len(v))
          ELSE v)
    ELSE IF \E j \in 1..(i - 1) : OccursAt(t, j, k) /\ i < j + Len(k)
    THEN <<>>
    ELSE <<t[i]>>

\* The text with every occurrence of k replaced as the law says.
LawOnText(t, k, v) == Join([i \in 1..Len(t) |-> LawAt(t, i, k, v)], <<>>)

\* The law applied entry after entry.
RECURSIVE LawOnEntries(_, _)
LawOnEntries(t, entries) ==
    IF entries = <<>> THEN t
    ELSE LawOnEntries(LawOnText(t, Head(entries).wrong, Head(entries).correct),
                      Tail(entries))

\* C15: capitalization law of applyCorrections: for every entry
\* wrong -> correct and every match, a match whose first character is an
\* upper-case letter is replaced by correct with its first character
\* upper-cased, any other match by correct verbatim ("Foo text" becomes
\* "Bar text", "foo text" becomes "bar text" under {"foo": "bar"}).
C15_CapitalizationLaw ==
    \A r \in correctedText : r = LawOnEntries(sourceText, correctionDict)

C15_Witness ==
    /\ sourceText = <<"F", "o", "o", " ", "t", "e", "x", "t">>
    /\ correctionDict = << [wrong |-> Foo, correct |-> Bar] >>
    /\ correctedText = { <<"B", "a", "r", " ", "t", "e", "x", "t">> }

\* No replacement value is itself a key of the dictionary.
NoValueIsKey(d) == \A i, j \in 1..Len(d) : d[i].correct # d[j].wrong

NoKeyInValues(d) ==
    /\ \A i \in 1..Len(d) : PlainWord(d[i].wrong)
    /\ \A i, j \in 1..Len(d) :
           \A n \in 1..Len(d[j].correct) : ~OccursAt(d[j].correct, n, d[i].wrong)

WellFormedCorrection(raw) ==
    /\ CountChar(raw, "=") = 1
    /\ LET k == CHOOSE i \in 1..Len(raw) : raw[i] = "="
       IN  /\ AllDigits(Trim(SubSeq(raw, 1, k - 1)))
           /\ AllDigits(Trim(SubSeq(raw, k + 1, Len(raw))))

InvalidCorrectionChunk ==
    sendProgress(<<"Error: Invalid page correction format. Please use book_page=pdf_page.">>)

\* C17: a page-correction expression that is given and is not exactly one
\* number, an equals sign and one number (a missing side, an empty side,
\* extra `=` segments) aborts the request: the error naming the
\* book_page=pdf_page format is sent, and no temp directory, image, OCR
\* file or EPUB is made.
C17_MalformedCorrectionAborts ==
    (/\ pdfFile = "ok"
     /\ serverPc \notin {"idle", "form"}
     /\ Trim(pageCorrectionRaw) # <<>>
     /\ ~WellFormedCorrection(pageCorrectionRaw))
        => /\ serverPc = "closed"
           /\ \E i \in 1..Len(stream) : stream[i] = InvalidCorrectionChunk
           /\ tempDir = {}

\* The server sent the download URL of the EPUB.
DownloadSent ==
    \E i \in 1..Len(stream) :
        Len(stream[i]) >= 2 /\ stream[i][1] = "data: " /\ stream[i][2] = "download:"

\* C18: after a conversion completes successfully (the form is valid, the
\* pages are extracted and recognized), the server sends the download URL
\* of the EPUB and the page eventually shows a download link: its
\* epubDownloadLink becomes non-empty.
C18_DownloadLinkShown ==
    (serverPc = "recognized") ~> (DownloadSent /\ epubDownloadLink # <<>>)

(***************************************************************************)
(* Claims about the download endpoint (SpecDownload).                      *)
(***************************************************************************)
\* The path is an entry directly inside the directory.
DirectlyInside(filePath, dir) ==
    /\ Len(filePath) = Len(dir) + 1
    /\ SubSeq(filePath, 1, Len(dir)) = dir

\* C19: the download endpoint prevents path traversal: for every hash and
\* filename, a hash that is not 32 hexadecimal characters is answered with
\* status 400 before any filesystem access, and otherwise every path
\* accessed is an entry directly inside the temp directory
\* pdf-to-epub-<hash>, never that directory's parent or another directory.
C19_NoPathTraversal ==
    response # {} =>
        IF Len(hash) = HashLength /\ \A i \in 1..Len(hash) : hash[i] \in HexDigits
        THEN \A a \in accessed : DirectlyInside(a.path, TempDirOf(hash))
        ELSE response = {400} /\ accessed = {}

\* The book pages from first to last whose physical page lies inside the
\* PDF and has a text in the ocr directory.
PagesPresent(first, last) ==
    { p \in first..last :
        p + pageOffset \in 1..totalPdfPages /\ p + pageOffset \in DOMAIN ocrDir }

\* The texts of those pages, formatted and put together in ascending order.
RECURSIVE ContentOfPages(_, _)
ContentOfPages(first, last) ==
    IF first > last THEN <<>>
    ELSE (IF first \in PagesPresent(first, first)
          THEN formatTextAsHtml(ocrDir[first + pageOffset])
          ELSE <<>>) \o ContentOfPages(first + 1, last)

\* C21: for a chapter with a parsable range [start, end], the pages whose
\* text is appended to the chapter content are exactly the book pages p in
\* start..end with 1 <= p + offset <= totalPdfPages whose text is present,
\* each once in ascending p; an out-of-range or absent page contributes
\* nothing, and a page whose text is present is appended whatever words it
\* contains.  Stated at every point of the page loop, for the pages passed.
C21_ExactlyPresentPagesAppended ==
    epubPc = "page" =>
        /\ chapterPages = PagesPresent(IntOf(chapterRange.start), pageJ - 1)
        /\ chapterContent = ContentOfPages(IntOf(chapterRange.start), pageJ - 1)

(***************************************************************************)
(* Claims about whole-word replacement (SpecWords).                        *)
(***************************************************************************)
\* A letter of the alphabet, ASCII or accented, in either case.
IsAlphabetLetter(c) == c \in LetterSet \cup {dStroke, DStroke}

\* The key stands at position i of t as a whole word: it is there, letter
\* case aside, with no letter of the alphabet right before or right after.
WholeWordAt(t, i, k) ==
    LET last == i + Len(k) - 1
    IN  /\ last <= Len(t)
        /\ \A n \in 1..Len(k) : SameLetter(t[i + n - 1], k[n])
        /\ i = 1 \/ ~IsAlphabetLetter(t[i - 1])
        /\ last = Len(t) \/ ~IsAlphabetLetter(t[last + 1])

\* t from position i on with every whole-word occurrence of k replaced by v
\* and everything else kept.
RECURSIVE WholeWordsReplaced(_, _, _, _)
WholeWordsReplaced(t, i, k, v) ==
    IF i > Len(t) THEN <<>>
    ELSE IF WholeWordAt(t, i, k)
    THEN v \o WholeWordsReplaced(t, i + Len(k), k, v)
    ELSE <<t[i]>> \o WholeWordsReplaced(t, i + 1, k, v)

\* C22: for a dictionary key made only of alphabet letters (ASCII or
\* accented Vietnamese letters), applyCorrections replaces an occurrence of
\* the key if and only if it stands as a whole word, not immediately
\* preceded or followed by another letter of the alphabet: every whole-word
\* occurrence is replaced and no occurrence inside a longer word is.
C22_WholeWordsOnly ==
    \A r \in correctedText :
        r = WholeWordsReplaced(sourceText, 1, correctionDict[1].wrong,
                               correctionDict[1].correct)

(***************************************************************************)
(* Claims about the order of the final chapters (SpecChapters).            *)
(***************************************************************************)
\* The orders of the user chapters: each chapter once.
UserOrders ==
    { o \in [UserIndexes -> UserIndexes] : \A i, j \in UserIndexes : o[i] = o[j] => i = j }

\* The order is ascending in the start page, and chapters with the same
\* start page keep their input order.
StableAscending(o) ==
    \A i \in 1..(Len(userChapters) - 1) :
        \/ UserStart(o[i]) < UserStart(o[i + 1])
        \/ UserStart(o[i]) = UserStart(o[i + 1]) /\ o[i] < o[i + 1]

\* C23: generateFinalChapters orders the user chapters by a stable ascending
\* sort on the integer start of their page range: chapters with equal start
\* keep their relative order, every user chapter appears exactly once and
\* unchanged, and the user chapters form one contiguous block between the
\* optional Introduction and the optional Appendices.
C23_StableSortedBlock ==
    \A f \in finalChapters :
        userChapters # <<>> =>
            \E before \in {0, 1} :
                LET after == Len(f) - Len(userChapters) - before
                IN  /\ after \in {0, 1}
                    /\ before = 1 => f[1].title = Introduction
                    /\ after = 1 => f[Len(f)].title = Appendices
                    /\ \E o \in UserOrders :
                           /\ StableAscending(o)
                           /\ \A i \in UserIndexes : f[before + i] = userChapters[o[i]]

C23_Witness ==
    /\ Len(userChapters) = 2
    /\ UserStart(1) = UserStart(2)
    /\ userChapters[1].pages # userChapters[2].pages
    /\ \E f \in finalChapters :
           /\ Len(f) = 4
           /\ f[2] = userChapters[1]
           /\ f[3] = userChapters[2]

(***************************************************************************)
(* Claims about the handling of the form (SpecConvert).                    *)
(***************************************************************************)
\* The toc field is given and validateToc does not accept it.
TocInvalid == Trim(tocRaw) # <<>> /\ ~validateToc(tocRaw).valid

\* The chunk reports an error.
IsErrorChunk(chunk) ==
    Len(chunk) >= 2 /\ chunk[2] \in {"Error: ", "Error: No PDF file uploaded.",
        "Error: File too large. Maximum size is 50MB.",
        "Error: Invalid page correction format. Please use book_page=pdf_page.",
        "Error: An error occurred during conversion: "}

\* The chunk that carries the error of validateToc.
TocErrorChunk ==
    sendProgress(<<"Error: ">> \o (CHOOSE e \in validateToc(tocRaw).error : TRUE).msg)

\* C24: when the TOC text is invalid, the request sends the validation
\* error as its only result and performs none of the later steps: no temp
\* directory is created, the PDF is not saved, no image extraction or OCR
\* runs, no chapter is emitted and no download message is sent.  (The
\* validation error is that of the TOC when the PDF and the page correction
\* before it were accepted; the notice that no page correction was given is
\* no result.)
C24_InvalidTocStopsRequest ==
    (TocInvalid /\ serverPc \notin {"idle", "form"}) =>
        /\ serverPc = "closed"
        /\ stream # <<>>
        /\ \A i \in 1..Len(stream) : IsErrorChunk(stream[i]) <=> i = Len(stream)
        /\ (pdfFile = "ok" /\ validation # {}) => stream[Len(stream)] = TocErrorChunk
        /\ (pdfFile = "ok" /\ validation = {}) =>
               stream[Len(stream)] = InvalidCorrectionChunk
        /\ tempDir = {}
        /\ ~DownloadSent
        /\ finalChapters = {}
        /\ epubPc = "idle"

C24_Witness ==
    /\ TocInvalid
    /\ pdfFile = "ok"
    /\ pageCorrectionRaw = <<"1", "=", "2">>
    /\ clientPc = "done"
    /\ stream = <<TocErrorChunk>>
    /\ conversionStatus = Tail(SubSeq(TocErrorChunk, 1, Len(TocErrorChunk) - 1))

\* The server reported that the correction dictionary file is absent.
DictionaryNotFound ==
    \E i \in 1..Len(stream) :
        stream[i] = sendProgress(<<"Correction dictionary not found, skipping correction.">>)

\* C25: a missing optional resource is not fatal: when the correction
\* dictionary file is absent, the conversion still runs to completion and
\* ends with a download message rather than an error.
C25_MissingDictionaryNotFatal ==
    (DictionaryNotFound /\ serverPc = "closed") =>
        /\ DownloadSent
        /\ \A i \in 1..Len(stream) : ~IsErrorChunk(stream[i])

\* C26: findAbnormalWords records a token of the lower-cased text for the
\* given page if and only if it is longer than one character and absent
\* from the vocabulary, the ignore list and the secondary-language set, an
\* absent ignore list or secondary set behaving as an empty set.  Stated
\* for the calls generateEpub makes, which pass no secondary set, with a
\* loaded vocabulary: at the end the words of the index are exactly the
\* qualifying tokens of the pages read.
C26_QualifyingTokensRecorded ==
    (epubPc = "done" /\ vietnameseDict # {}) =>
        DOMAIN abnormalWords =
            UNION { UnknownWords(ocrDir[p + pageOffset]) : p \in PagesRead }

\* C27: on every path through the /api/convert handler (missing PDF,
\* oversize file, malformed page correction, invalid TOC, exception during
\* processing, success) the progress stream writer is closed exactly once:
\* writer.close() is never called a second time, and it has been called
\* once when processPdf is over.
C27_WriterClosedOnce ==
    /\ closes <= 1
    /\ serverPc = "closed" => closes = 1

(***************************************************************************)
(* Claims about requests that follow one another (SpecResume).             *)
(***************************************************************************)
\* const ocrFiles = await fs.readdir(ocrOutputDir); ocrFiles.length: the
\* page count processPdf uses for the chapters and for assembly.
ocrFilesLength == Cardinality(Files("text"))

\* C28: resumability: if a conversion of a file is interrupted at any point
\* (part-way through image extraction or OCR included) and the same file is
\* submitted again, the run ends OCR with a recognized text for every page
\* of the PDF, so the page count used for chapter reconciliation and
\* assembly equals the PDF's real page count.
C28_ResumedRunHasEveryPage ==
    (serverPc = "recognized" /\ pdfFile = "ok") =>
        /\ { f[2] : f \in Files("text") } = 1..totalPdfPages
        /\ ocrFilesLength = totalPdfPages

\* C29: for two conversion requests that upload different PDF contents
\* under the same file name, each request works on the pages of the PDF
\* uploaded in that request: when its OCR is over, the saved PDF, the
\* images and the texts its EPUB is built from all come from that PDF,
\* none from a file another request left.
C29_OwnPagesOnly ==
    serverPc = "recognized" =>
        \A f \in Files("pdf") \cup Files("image") \cup Files("text") : f[3] = pdfFile

\* What recognizeWithRetry is to make of the outcomes of the attempts: the
\* text of the first attempt that returns one, after that many calls, or
\* the error of the last attempt after MAX_OCR_RETRIES calls.
RetryLaw(call) ==
    LET o == call.outcomes
        r == call.result
        texts == { k \in 1..MAX_OCR_RETRIES : o[k] = "text" }
    IN  IF texts = {}
        THEN r = [calls |-> MAX_OCR_RETRIES, threw |-> TRUE,
                  value |-> <<"error", MAX_OCR_RETRIES>>]
        ELSE LET first == CHOOSE k \in texts : \A n \in texts : k <= n
             IN  r = [calls |-> first, threw |-> FALSE, value |-> <<"text", first>>]

\* C30: recognizeWithRetry calls the OCR worker at most maxRetries (3)
\* times for one image, stops at the first successful attempt and returns
\* its text, and throws the error of the last attempt if all of them fail;
\* in performOcr the worker is terminated on every path, whether OCR
\* finished or an error was thrown, and a page whose text file already
\* exists is never recognized again.
C30_RetryAndTerminate ==
    /\ [](/\ recognition # <<>> => RetryLaw(recognition)
          /\ serverPc = "ocr" => worker = "active"
          /\ (serverPc \notin {"ocr", "idle"} /\ worker # "none") => worker = "terminated")
    /\ [][ recognition' # recognition =>
               ~\E f \in Files("text") : f[2] = recognition'.page ]_vars

C30_Witness ==
    /\ serverPc = "recognized"
    /\ worker = "terminated"
    /\ totalPdfPages = 2
    /\ \E i \in 1..Len(stream) :
           stream[i] = sendProgress(<<"OCR for page ">> \o IntToString(1)
                                    \o <<" already exists.">>)
    /\ recognition # <<>>
    /\ recognition.page = 2
    /\ recognition.outcomes = <<"error", "error", "text">>
    /\ recognition.result.calls = 3

====
